---- MODULE Spec2Model ----
(***************************************************************************)
(* The incremental fetchers of data_engine: fetch_reddit.py (RedditFetcher),*)
(* fetch_fred.py (FREDFetcher) and fetch_trends.py (TrendsFetcher).        *)
(*                                                                         *)
(* Each fetcher is a script of its own; src says which one is running.     *)
(* Keys (subreddits, series, terms) are numbered in configuration order.   *)
(* Times are integers in the fetcher's unit: seconds for Reddit, days for  *)
(* FRED and Trends.  An item is [id, ts, v]: its natural key, its          *)
(* timestamp and the rest of its payload (for FRED and Trends the key is   *)
(* the date, so id = ts).                                                   *)
(*                                                                         *)
(* The external sources are modelled by upstream: the items a source holds *)
(* for each key.  A request either fails or answers from upstream, with    *)
(* the items of the requested window in ascending time order.  The         *)
(* sources change (AddItem, EditItem) and the clock advances (Tick) only   *)
(* between runs of fetch_all, and only one key at a time holds data.       *)
(***************************************************************************)
EXTENDS Integers, Sequences, FiniteSets, TLC

\* ---------------------------------------------------------------- bounds
MaxItems == 3     \* items a source holds for one key
Limit    == 2     \* page size of a Reddit request (the code's default is 100)
MaxTick  == 1     \* clock ticks after the start
StartDay == 20000 \* the day the model starts at (days since the epoch)

\* ------------------------------------------------------ program constants
NumSubreddits          == 2
NumSeries              == 5
NumTerms               == 4
REDDIT_MAX_RETRIES     == 3
REDDIT_BACKOFF_FACTOR  == 2
TRENDS_MAX_RETRIES     == 3
TRENDS_BACKOFF_FACTOR  == 3
SecondsPerDay          == 86400
RedditIncrementalDays  == 30
RedditFullDays         == 365
TrendsIncrementalDays  == 90
TrendsFullDays         == 365 * 5

None    == -1     \* Python's None, for a checkpoint or a start boundary
NoId    == 0      \* a post without an id (post.get('id') is falsy)
Missing == 0      \* FRED's missing-value marker '.'

Sources == {"reddit", "fred", "trends"}

NumKeys(s) ==
  CASE s = "reddit" -> NumSubreddits
    [] s = "fred"   -> NumSeries
    [] s = "trends" -> NumTerms

KeysOf(s) == 1 .. NumKeys(s)

Now0(s) == IF s = "reddit" THEN StartDay * SecondsPerDay ELSE StartDay

\* the times an item may carry: the last of them is outside a window that
\* ends now (before now for Reddit, up to now for Trends) until the clock ticks
ItemTimes(s) ==
  IF s = "trends" THEN (Now0(s) - 1) .. (Now0(s) + 1)
  ELSE (Now0(s) - 2) .. Now0(s)

\* the payload of an item: a source first publishes Older(s), and may revise
\* it to Newer(s) (FRED fills in a missing value)
Older(s) == IF s = "fred" THEN Missing ELSE 1

Newer(s) == IF s = "fred" THEN 1 ELSE 2

Values(s) == {Older(s), Newer(s)}

NoFile == [exists |-> FALSE, items |-> <<>>]

File(items) == [exists |-> TRUE, items |-> items]

NoOld == [file |-> NoFile, meta |-> None]

\* ---------------------------------------------------------- pure helpers
Ids(s) == {s[i].id : i \in 1 .. Len(s)}

MaxOf(S) == CHOOSE x \in S : \A y \in S : y <= x

Truthy(x) == x # None /\ x # 0

RECURSIVE InsertByTs(_, _)
InsertByTs(s, x) ==
  IF s = <<>> THEN <<x>>
  ELSE IF Head(s).ts <= x.ts THEN <<Head(s)>> \o InsertByTs(Tail(s), x)
  ELSE <<x>> \o s

\* list.sort(key=...) and sorted(..., key=...): ascending and stable
RECURSIVE SortByTs(_)
SortByTs(s) ==
  IF s = <<>> THEN <<>>
  ELSE InsertByTs(SortByTs(SubSeq(s, 1, Len(s) - 1)), s[Len(s)])

\* the items of a set in ascending (ts, id) order
RECURSIVE AscSeq(_)
AscSeq(S) ==
  IF S = {} THEN <<>>
  ELSE LET m == CHOOSE x \in S : \A y \in S :
                  x.ts < y.ts \/ (x.ts = y.ts /\ x.id <= y.id)
       IN  <<m>> \o AscSeq(S \ {m})

Prefix(s, n) == SubSeq(s, 1, IF Len(s) < n THEN Len(s) ELSE n)

\* ------------------------------------------------------------ the merges
\* a merge that keeps the last item of an id instead of the first
RECURSIVE UniquePostsKeepLast(_, _)
UniquePostsKeepLast(all, seen_ids) ==
  IF all = <<>> THEN <<>>
  ELSE LET post == Head(all) IN
       IF post.id # NoId /\ ~\E i \in 1 .. Len(Tail(all)) : Tail(all)[i].id = post.id
       THEN <<post>> \o UniquePostsKeepLast(Tail(all), seen_ids)
       ELSE UniquePostsKeepLast(Tail(all), seen_ids)

\* save_posts: keep a post when its id is truthy and not seen before
RECURSIVE UniquePosts(_, _)
UniquePosts(all, seen_ids) ==
  IF all = <<>> THEN <<>>
  ELSE LET post == Head(all) IN
       IF post.id # NoId /\ post.id \notin seen_ids
       THEN <<post>> \o UniquePosts(Tail(all), seen_ids \cup {post.id})
       ELSE UniquePosts(Tail(all), seen_ids)

\* a merge that does not deduplicate
RedditConcat(existing_posts, posts) == SortByTs(existing_posts \o posts)

RedditMerge(existing_posts, posts) ==
  SortByTs(UniquePosts(existing_posts \o posts, {}))

\* the least created_utc instead of the greatest
FirstCreatedUtc(unique_posts) ==
  IF unique_posts = <<>> THEN None
  ELSE CHOOSE t \in {unique_posts[i].ts : i \in 1 .. Len(unique_posts)} :
         \A i \in 1 .. Len(unique_posts) : t <= unique_posts[i].ts

LastCreatedUtc(unique_posts) ==
  IF unique_posts = <<>> THEN None
  ELSE MaxOf({unique_posts[i].ts : i \in 1 .. Len(unique_posts)})

\* fetch_series: keep an observation when its date was not seen before
RECURSIVE UniqueObs(_, _)
UniqueObs(all_obs, seen_dates) ==
  IF all_obs = <<>> THEN <<>>
  ELSE LET obs == Head(all_obs) IN
       IF obs.id \notin seen_dates
       THEN <<obs>> \o UniqueObs(Tail(all_obs), seen_dates \cup {obs.id})
       ELSE UniqueObs(Tail(all_obs), seen_dates)

FredMerge(existing_obs, observations) ==
  SortByTs(UniqueObs(existing_obs \o observations, {}))

\* save_series_data: the greatest date among the observations with a value
LastObservationDate(observations) ==
  LET valid_obs == SelectSeq(observations, LAMBDA obs : obs.v # Missing) IN
  IF valid_obs = <<>> THEN None
  ELSE MaxOf({valid_obs[i].ts : i \in 1 .. Len(valid_obs)})

\* FRED_SERIES gives each series 'name', 'frequency', 'units' and 'sheet';
\* save_series_data reads FRED_SERIES[series_id]['description'] while it
\* builds the metadata, after the observations file is written.
FredSeriesHasDescription == FALSE

\* drop_duplicates with keep='first'
RECURSIVE DropDuplicatesKeepFirst(_)
DropDuplicatesKeepFirst(s) ==
  IF s = <<>> THEN <<>>
  ELSE LET n == Len(s) IN
       IF \E i \in 1 .. n - 1 : s[i].id = s[n].id
       THEN DropDuplicatesKeepFirst(SubSeq(s, 1, n - 1))
       ELSE DropDuplicatesKeepFirst(SubSeq(s, 1, n - 1)) \o <<s[n]>>

\* drop_duplicates(subset=['date'], keep='last')
RECURSIVE DropDuplicatesKeepLast(_)
DropDuplicatesKeepLast(s) ==
  IF s = <<>> THEN <<>>
  ELSE IF \E i \in 1 .. Len(Tail(s)) : Tail(s)[i].id = Head(s).id
       THEN DropDuplicatesKeepLast(Tail(s))
       ELSE <<Head(s)>> \o DropDuplicatesKeepLast(Tail(s))

\* a save that writes the fetched rows alone
TrendsOverwrite(existing_data, data) ==
  SortByTs(DropDuplicatesKeepLast(data))

TrendsMerge(existing_data, data) ==
  SortByTs(DropDuplicatesKeepLast(existing_data \o data))

TrendsLastDate(data) == MaxOf({data[i].ts : i \in 1 .. Len(data)})

\* ------------------------------------------------- the start of a window
\* an incremental window that starts at the checkpoint itself
RedditAfterCheckpoint(inc, last_utc, t) ==
  IF inc
  THEN IF Truthy(last_utc) THEN last_utc
       ELSE t - RedditIncrementalDays * SecondsPerDay
  ELSE t - RedditFullDays * SecondsPerDay

RedditAfterTimestamp(inc, last_utc, t) ==
  IF inc
  THEN IF Truthy(last_utc) THEN last_utc + 1
       ELSE t - RedditIncrementalDays * SecondsPerDay
  ELSE t - RedditFullDays * SecondsPerDay

FredStartDate(inc, last_date) ==
  IF inc /\ last_date # None THEN last_date + 1 ELSE None

TrendsTimeframeStart(inc, last_date, t) ==
  IF inc
  THEN IF last_date # None THEN last_date + 1 ELSE t - TrendsIncrementalDays
  ELSE t - TrendsFullDays

\* ------------------------------------------------------ retry and backoff
\* one retry more
RedditRetryOnceMore(rc) == rc <= REDDIT_MAX_RETRIES

RedditShouldRetry(rc) == rc < REDDIT_MAX_RETRIES

RedditWaitTime(rc) == REDDIT_BACKOFF_FACTOR ^ rc

TrendsShouldRetry(rc) == rc < TRENDS_MAX_RETRIES

TrendsWaitTime(rc) == TRENDS_BACKOFF_FACTOR ^ rc

\* a FRED request retried like a Reddit request
FredRetryLikeReddit(rc) == rc < REDDIT_MAX_RETRIES

\* FREDFetcher._make_request logs the error and raises: it has no retry
FredShouldRetry(rc) == FALSE

FredWaitTime(rc) == 0

\* a fetch_all without the try/except around the fetch of a key
FetchAllPropagates == FALSE

\* ---------------------------------------------------------- rate limiting
\* Time is counted in ticks of half a second, the finest delay of the three.
TicksPerSecond == 2

REDDIT_RATE_LIMIT_DELAY == 2  \* 1.0 s
FRED_RATE_LIMIT_DELAY   == 1  \* 0.5 s
TRENDS_RATE_LIMIT_DELAY == 4  \* 2.0 s

RateCap      == 5  \* elapsed times and gaps of RateCap ticks or more are one value
MaxOvershoot == 1  \* ticks a time.sleep may last longer than asked

RATE_LIMIT_DELAY(s) ==
  CASE s = "reddit" -> REDDIT_RATE_LIMIT_DELAY
    [] s = "fred"   -> FRED_RATE_LIMIT_DELAY
    [] s = "trends" -> TRENDS_RATE_LIMIT_DELAY

Capped(t) == IF t < RateCap THEN t ELSE RateCap

\* The limiter of an instance: elapsed is time.time() - last_request_time as
\* it would be read now; requests counts the requests sent (0, 1, 2 or more);
\* gap is the time between the last two values of last_request_time; slept is
\* what the latest _rate_limit asked time.sleep for.  __init__ sets
\* last_request_time = 0, ages before now.
NewLimiter == [elapsed |-> RateCap, requests |-> 0, gap |-> None, slept |-> 0]

\* a _rate_limit that never sleeps
RateLimitNoSleep(l, delay, over) ==
  [elapsed  |-> 0,
   requests |-> IF l.requests < 2 THEN l.requests + 1 ELSE 2,
   gap      |-> IF l.requests = 0 THEN None ELSE l.elapsed,
   slept    |-> 0]

\* _rate_limit: sleep for what is missing to RATE_LIMIT_DELAY, then stamp
\* last_request_time; the sleep lasts over ticks longer than asked
RateLimit(l, delay, over) ==
  LET sleep == IF l.elapsed < delay THEN delay - l.elapsed ELSE 0
      woke  == IF sleep > 0 THEN l.elapsed + sleep + over ELSE l.elapsed
  IN  [elapsed  |-> 0,
       requests |-> IF l.requests < 2 THEN l.requests + 1 ELSE 2,
       gap      |-> IF l.requests = 0 THEN None ELSE Capped(woke),
       slept    |-> sleep]

\* time.sleep(wait_time) of a retry
Backoff(l, seconds) == [l EXCEPT !.elapsed = Capped(@ + seconds * TicksPerSecond)]

\* fetch_all wraps each key's fetch in try/except Exception and goes on
FetchAllCatches == TRUE

VARIABLES
  src,            \* the fetcher that runs
  now,            \* the clock
  upstream,       \* key -> the items the source holds
  raw,            \* key -> the raw file (posts.json, observations.json, data.csv)
  meta,           \* key -> the checkpoint in the metadata file, or None
  pc,             \* where the script is
  idx,            \* fetch_all: the number of keys begun in this run
  incremental,    \* fetch_all's argument
  after_ts,       \* the start of the window (after_timestamp, start_date, timeframe_start)
  before_ts,      \* the end of the window (before_timestamp, timeframe_end)
  current_after,  \* fetch_subreddit's cursor
  all_posts,      \* the items fetched so far (all_posts, observations, data)
  retry_count,    \* the retry_count argument of the request in progress
  attempts,       \* the failed attempts of the request in progress or given up
  sleeps,         \* the backoff sleeps of the request in progress or given up
  exhausted,      \* a request of this fetch failed for good
  attempted,      \* the keys begun in this run, in order
  outcome,        \* how the fetch of key idx went
  old,            \* the files of key idx as they were when its fetch began
  raised,         \* a fetch of this run raised into fetch_all
  limiter,        \* the rate limiter of the fetcher instance
  cycle,          \* the runs of fetch_all: how this one goes, how the last one went
  fn,             \* the method of RedditPreprocessor that is called
  text,           \* its argument, a string as the sequence of its code points
  result,         \* what it returned
  returned,       \* it has returned
  us_states,      \* RedditPreprocessor.us_states
  city_to_state,  \* RedditPreprocessor.city_to_state, with the city_ascii of each key
  filename,       \* the argument of process_file
  raw_dir,        \* the raw files of a preprocessor, by name
  unit,           \* process_all: the number of units begun
  all_data,       \* process_all: the data frames collected (all_data, all_dfs)
  processed,      \* the combined file in processed_dir
  log,            \* the warnings and errors logged
  error,          \* the exception the method raised, or "none"
  df_long,        \* preprocess_zillow.main: the facts process_all returned
  df_city_latest, \* preprocess_zillow.main: the city latest table
  df_state_agg,   \* preprocess_zillow.main: the state aggregated table
  wb,             \* update_excel_and_upload: the workbook in memory
  excel_file      \* the workbook on disk

vars == <<src, now, upstream, raw, meta, pc, idx, incremental, after_ts,
          before_ts, current_after, all_posts, retry_count, attempts, sleeps,
          exhausted, attempted, outcome, old, raised, limiter, cycle,
          fn, text, result, returned, us_states, city_to_state,
          filename, raw_dir, unit, all_data, processed, log, error,
          df_long, df_city_latest, df_state_agg, wb, excel_file>>

\* the variables of preprocess_zillow.main after process_all
aggVars == <<df_long, df_city_latest, df_state_agg>>

\* the variables of the workbook
excelVars == <<wb, excel_file>>

\* the variables of process_file and process_all
batchVars == <<filename, raw_dir, unit, all_data, processed, log, error,
               aggVars, excelVars>>

\* the variables of the preprocessors
preVars == <<fn, text, result, returned, us_states, city_to_state, batchVars>>

\* the variables fetch_all and its environment do not touch
auxVars == <<limiter, cycle, preVars>>

\* a step that leaves them alone
Keep(A) == A /\ UNCHANGED auxVars

envVars == <<src, now, upstream>>

fileVars == <<raw, meta>>

Keys == KeysOf(src)

InitProgram ==
  /\ src \in Sources
  /\ now = Now0(src)
  /\ raw = [k \in KeysOf(src) |-> NoFile]
  /\ meta = [k \in KeysOf(src) |-> None]
  /\ pc = "idle"
  /\ idx = 0
  /\ incremental = TRUE
  /\ after_ts = None
  /\ before_ts = None
  /\ current_after = None
  /\ all_posts = <<>>
  /\ retry_count = 0
  /\ attempts = 0
  /\ sleeps = <<>>
  /\ exhausted = FALSE
  /\ attempted = <<>>
  /\ outcome = "none"
  /\ old = NoOld
  /\ raised = FALSE

\* the variables of auxVars as the constructors leave them
\* no run of fetch_all yet
NoCycle == [clean |-> TRUE, done |-> FALSE]

\* the fallback list of _load_cities_data: AL, AK, AZ, ... WY, DC
FallbackStates ==
  {<<65, 76>>, <<65, 75>>, <<65, 90>>, <<65, 82>>, <<67, 65>>,
   <<67, 79>>, <<67, 84>>, <<68, 69>>, <<70, 76>>, <<71, 65>>,
   <<72, 73>>, <<73, 68>>, <<73, 76>>, <<73, 78>>, <<73, 65>>,
   <<75, 83>>, <<75, 89>>, <<76, 65>>, <<77, 69>>, <<77, 68>>,
   <<77, 65>>, <<77, 73>>, <<77, 78>>, <<77, 83>>, <<77, 79>>,
   <<77, 84>>, <<78, 69>>, <<78, 86>>, <<78, 72>>, <<78, 74>>,
   <<78, 77>>, <<78, 89>>, <<78, 67>>, <<78, 68>>, <<79, 72>>,
   <<79, 75>>, <<79, 82>>, <<80, 65>>, <<82, 73>>, <<83, 67>>,
   <<83, 68>>, <<84, 78>>, <<84, 88>>, <<85, 84>>, <<86, 84>>,
   <<86, 65>>, <<87, 65>>, <<87, 86>>, <<87, 73>>, <<87, 89>>,
   <<68, 67>>}

\* a data frame that does not exist yet
NoFrame == [columns |-> <<>>, rows |-> <<>>]

\* no table of preprocess_zillow.main is built
AggIdle ==
  /\ df_long = NoFrame
  /\ df_city_latest = NoFrame
  /\ df_state_agg = NoFrame

\* no workbook is open, none is on disk
ExcelIdle ==
  /\ wb = <<>>
  /\ excel_file = [exists |-> FALSE, sheets |-> <<>>]

\* no process_file, no process_all
BatchIdle ==
  /\ AggIdle
  /\ ExcelIdle
  /\ filename = ""
  /\ raw_dir = <<>>
  /\ unit = 0
  /\ all_data = <<>>
  /\ processed = [exists |-> FALSE, rows |-> <<>>]
  /\ log = <<>>
  /\ error = "none"

\* no preprocessor runs
PreIdle ==
  /\ fn = "none"
  /\ text = <<>>
  /\ result = <<>>
  /\ returned = FALSE
  /\ us_states = FallbackStates
  /\ city_to_state = {}
  /\ BatchIdle

AuxIdle ==
  /\ limiter = NewLimiter
  /\ cycle = NoCycle
  /\ PreIdle

Init ==
  /\ InitProgram
  /\ upstream = [k \in KeysOf(src) |-> {}]
  /\ AuxIdle

\* ------------------------------------------------------- the environment
progVars == <<raw, meta, pc, idx, incremental, after_ts, before_ts,
              current_after, all_posts, retry_count, attempts, sleeps,
              exhausted, attempted, outcome, old, raised>>

AddItem ==
  /\ pc = "idle"
  /\ \E k \in Keys, t \in ItemTimes(src), v \in Values(src) :
       LET id == IF src = "reddit" THEN Cardinality(upstream[k]) + 1 ELSE t IN
       /\ \A j \in Keys \ {k} : upstream[j] = {}
       /\ Cardinality(upstream[k]) < MaxItems
       /\ \A p \in upstream[k] : p.id # id
       /\ upstream' = [upstream EXCEPT ![k] = @ \cup {[id |-> id, ts |-> t, v |-> v]}]
  /\ UNCHANGED <<src, now>>
  /\ UNCHANGED progVars

EditItem ==
  /\ pc = "idle"
  /\ \E k \in Keys : \E p \in upstream[k] :
       /\ p.v = Older(src)
       /\ upstream' = [upstream EXCEPT
                         ![k] = (@ \ {p}) \cup {[p EXCEPT !.v = Newer(src)]}]
  /\ UNCHANGED <<src, now>>
  /\ UNCHANGED progVars

\* FREDFetcher never reads the clock
Tick ==
  /\ pc = "idle"
  /\ src # "fred"
  /\ now < Now0(src) + MaxTick
  /\ now' = now + 1
  /\ UNCHANGED <<src, upstream>>
  /\ UNCHANGED progVars

\* ----------------------------------------------------- what a source answers
\* submissions with after <= created_utc < before, oldest first, at most size
RedditResponse(k, after, before, size) ==
  Prefix(AscSeq({p \in upstream[k] : p.ts >= after /\ p.ts < before}), size)

\* observations from observation_start on (all of them without one)
FredResponse(k, start) ==
  AscSeq({p \in upstream[k] : start = None \/ p.ts >= start})

\* interest over time for the timeframe "start end"
TrendsResponse(k, start, end) ==
  AscSeq({p \in upstream[k] : p.ts >= start /\ p.ts <= end})

\* ------------------------------------------------------------- fetch_all
StartRun ==
  /\ pc = "idle"
  /\ \E inc \in BOOLEAN : incremental' = inc
  /\ pc' = "loop"
  /\ idx' = 0
  /\ attempted' = <<>>
  /\ UNCHANGED <<after_ts, before_ts, current_after, all_posts, retry_count,
                 attempts, sleeps, exhausted, outcome>>
  /\ UNCHANGED envVars
  /\ UNCHANGED fileVars
  /\ raised' = FALSE
  /\ UNCHANGED old

FinishRun ==
  /\ pc = "loop"
  /\ idx = NumKeys(src)
  /\ pc' = "idle"
  /\ after_ts' = None
  /\ before_ts' = None
  /\ current_after' = None
  /\ all_posts' = <<>>
  /\ retry_count' = 0
  /\ attempts' = 0
  /\ sleeps' = <<>>
  /\ exhausted' = FALSE
  /\ outcome' = "none"
  /\ idx' = 0
  /\ incremental' = TRUE
  /\ attempted' = <<>>
  /\ UNCHANGED envVars
  /\ UNCHANGED fileVars
  /\ old' = NoOld
  /\ raised' = FALSE

\* an exception leaves the fetch of key idx and reaches fetch_all
AfterRaise == IF FetchAllCatches THEN "loop" ELSE "aborted"


\* --------------------------------------------------------- RedditFetcher
\* a fetch_subreddit that saves nothing after a request has failed for good
AfterLoopAllOrNothing(posts, ifNone) ==
  IF posts = <<>> \/ ifNone = "request_failed"
  THEN /\ pc' = "loop"
       /\ outcome' = ifNone
  ELSE /\ pc' = "save_posts"
       /\ outcome' = "running"

\* fetch_subreddit after its while loop: nothing fetched returns, else save
AfterLoop(posts, ifNone) ==
  IF posts = <<>>
  THEN /\ pc' = "loop"
       /\ outcome' = ifNone
  ELSE /\ pc' = "save_posts"
       /\ outcome' = "running"

\* a loop that does not look at the upper bound
LoopGoesOnUnbounded(cursor, before) == TRUE

\* while current_after < before_timestamp
LoopGoesOn(cursor, before) == cursor < before

\* a cursor that stays at the last post's timestamp
CursorAtLastPost(posts) == MaxOf({posts[i].ts : i \in 1 .. Len(posts)})

\* current_after = last_post_time + 1
CursorAfter(posts) == MaxOf({posts[i].ts : i \in 1 .. Len(posts)}) + 1

RedditBegin ==
  /\ src = "reddit"
  /\ pc = "loop"
  /\ idx < NumKeys(src)
  /\ LET k == idx + 1
         after_timestamp == RedditAfterTimestamp(incremental, meta[k], now)
     IN  /\ idx' = k
         /\ attempted' = Append(attempted, k)
         /\ after_ts' = after_timestamp
         /\ before_ts' = now
         /\ current_after' = after_timestamp
         /\ IF LoopGoesOn(after_timestamp, now)
            THEN pc' = "page" /\ outcome' = "running"
            ELSE pc' = "loop" /\ outcome' = "no_data"
  /\ all_posts' = <<>>
  /\ retry_count' = 0
  /\ attempts' = 0
  /\ sleeps' = <<>>
  /\ exhausted' = FALSE
  /\ UNCHANGED incremental
  /\ UNCHANGED envVars
  /\ UNCHANGED fileVars
  /\ old' = [file |-> raw[idx + 1], meta |-> meta[idx + 1]]
  /\ UNCHANGED raised

\* a loop that also stops after a full page
LastPageEarly(posts, limit) == Len(posts) <= limit

\* if len(posts) < limit: break
LastPage(posts, limit) == Len(posts) < limit

\* one attempt of _make_request answers
RedditPageOK ==
  /\ src = "reddit"
  /\ pc = "page"
  /\ LET posts == RedditResponse(idx, current_after, before_ts, Limit) IN
     IF posts = <<>>
     THEN /\ AfterLoop(all_posts, "no_data")
          /\ UNCHANGED <<all_posts, current_after>>
     ELSE /\ all_posts' = all_posts \o posts
          /\ current_after' = CursorAfter(posts)
          /\ IF ~LastPage(posts, Limit) /\ LoopGoesOn(CursorAfter(posts), before_ts)
             THEN pc' = "page" /\ outcome' = "running"
             ELSE AfterLoop(all_posts \o posts, "no_data")
  /\ retry_count' = 0
  /\ attempts' = 0
  /\ sleeps' = <<>>
  /\ UNCHANGED <<idx, incremental, after_ts, before_ts, exhausted, attempted>>
  /\ UNCHANGED envVars
  /\ UNCHANGED fileVars
  /\ UNCHANGED <<old, raised>>

\* one attempt of _make_request raises RequestException
RedditPageFail ==
  /\ src = "reddit"
  /\ pc = "page"
  /\ attempts' = attempts + 1
  /\ IF RedditShouldRetry(retry_count)
     THEN /\ sleeps' = Append(sleeps, RedditWaitTime(retry_count))
          /\ retry_count' = retry_count + 1
          /\ pc' = "page"
          /\ UNCHANGED <<exhausted, outcome>>
     ELSE /\ exhausted' = TRUE
          /\ AfterLoop(all_posts, "request_failed")
          /\ UNCHANGED <<sleeps, retry_count>>
  /\ UNCHANGED <<idx, incremental, after_ts, before_ts, current_after,
                 all_posts, attempted>>
  /\ UNCHANGED envVars
  /\ UNCHANGED fileVars
  /\ UNCHANGED <<old, raised>>

\* a save_posts that writes the metadata file where the posts file is due
RedditSaveMetaFirst ==
  /\ src = "reddit"
  /\ pc = "save_posts"
  /\ LET existing_posts == IF raw[idx].exists THEN raw[idx].items ELSE <<>> IN
     meta' = [meta EXCEPT
                ![idx] = LastCreatedUtc(RedditMerge(existing_posts, all_posts))]
  /\ pc' = "save_meta"
  /\ UNCHANGED <<raw, idx, incremental, after_ts, before_ts, current_after,
                 all_posts, retry_count, attempts, sleeps, exhausted,
                 attempted, outcome>>
  /\ UNCHANGED envVars
  /\ UNCHANGED <<old, raised>>

\* save_posts, its first write: the merged posts file
RedditSavePosts ==
  /\ src = "reddit"
  /\ pc = "save_posts"
  /\ LET existing_posts == IF raw[idx].exists THEN raw[idx].items ELSE <<>> IN
     raw' = [raw EXCEPT ![idx] = File(RedditMerge(existing_posts, all_posts))]
  /\ pc' = "save_meta"
  /\ UNCHANGED <<meta, idx, incremental, after_ts, before_ts, current_after,
                 all_posts, retry_count, attempts, sleeps, exhausted,
                 attempted, outcome>>
  /\ UNCHANGED envVars
  /\ UNCHANGED <<old, raised>>

\* save_posts, its second write: the metadata file
RedditSaveMeta ==
  /\ src = "reddit"
  /\ pc = "save_meta"
  /\ meta' = [meta EXCEPT ![idx] = LastCreatedUtc(raw[idx].items)]
  /\ pc' = "loop"
  /\ outcome' = "saved"
  /\ UNCHANGED <<raw, idx, incremental, after_ts, before_ts, current_after,
                 all_posts, retry_count, attempts, sleeps, exhausted, attempted>>
  /\ UNCHANGED envVars
  /\ UNCHANGED <<old, raised>>

\* --------------------------------------------------------- TrendsFetcher
TrendsBegin ==
  /\ src = "trends"
  /\ pc = "loop"
  /\ idx < NumKeys(src)
  /\ idx' = idx + 1
  /\ attempted' = Append(attempted, idx + 1)
  /\ pc' = "term"
  /\ outcome' = "running"
  /\ after_ts' = None
  /\ before_ts' = None
  /\ all_posts' = <<>>
  /\ retry_count' = 0
  /\ attempts' = 0
  /\ sleeps' = <<>>
  /\ exhausted' = FALSE
  /\ UNCHANGED <<incremental, current_after>>
  /\ UNCHANGED envVars
  /\ UNCHANGED fileVars
  /\ old' = [file |-> raw[idx + 1], meta |-> meta[idx + 1]]
  /\ UNCHANGED raised

\* one call of fetch_term whose request answers
TrendsRequestOK ==
  /\ src = "trends"
  /\ pc = "term"
  /\ LET timeframe_start == TrendsTimeframeStart(incremental, meta[idx], now)
         data == TrendsResponse(idx, timeframe_start, now)
     IN  /\ after_ts' = timeframe_start
         /\ before_ts' = now
         /\ all_posts' = data
         /\ IF data = <<>>
            THEN pc' = "loop" /\ outcome' = "no_data"
            ELSE pc' = "save_term" /\ outcome' = "running"
  /\ retry_count' = 0
  /\ attempts' = 0
  /\ sleeps' = <<>>
  /\ UNCHANGED <<idx, incremental, current_after, exhausted, attempted>>
  /\ UNCHANGED envVars
  /\ UNCHANGED fileVars
  /\ UNCHANGED <<old, raised>>

\* one call of fetch_term whose request raises
TrendsRequestFail ==
  /\ src = "trends"
  /\ pc = "term"
  /\ after_ts' = TrendsTimeframeStart(incremental, meta[idx], now)
  /\ before_ts' = now
  /\ attempts' = attempts + 1
  /\ IF TrendsShouldRetry(retry_count)
     THEN /\ sleeps' = Append(sleeps, TrendsWaitTime(retry_count))
          /\ retry_count' = retry_count + 1
          /\ pc' = "term"
          /\ UNCHANGED <<exhausted, outcome, raised>>
     ELSE /\ exhausted' = TRUE
          /\ outcome' = "request_failed"
          /\ pc' = AfterRaise
          /\ raised' = TRUE
          /\ UNCHANGED <<sleeps, retry_count>>
  /\ UNCHANGED <<idx, incremental, current_after, all_posts, attempted>>
  /\ UNCHANGED envVars
  /\ UNCHANGED fileVars
  /\ UNCHANGED old

\* save_term_data: the data file, then the metadata file
TrendsSave ==
  /\ src = "trends"
  /\ pc = "save_term"
  /\ LET data == IF raw[idx].exists
                 THEN TrendsMerge(raw[idx].items, all_posts)
                 ELSE all_posts
     IN  /\ raw' = [raw EXCEPT ![idx] = File(data)]
         /\ meta' = [meta EXCEPT ![idx] = TrendsLastDate(data)]
  /\ pc' = "loop"
  /\ outcome' = "saved"
  /\ UNCHANGED <<idx, incremental, after_ts, before_ts, current_after,
                 all_posts, retry_count, attempts, sleeps, exhausted, attempted>>
  /\ UNCHANGED envVars
  /\ UNCHANGED <<old, raised>>

\* ----------------------------------------------------------- FREDFetcher
FredBegin ==
  /\ src = "fred"
  /\ pc = "loop"
  /\ idx < NumKeys(src)
  /\ idx' = idx + 1
  /\ attempted' = Append(attempted, idx + 1)
  /\ pc' = "info"
  /\ outcome' = "running"
  /\ after_ts' = None
  /\ before_ts' = None
  /\ all_posts' = <<>>
  /\ retry_count' = 0
  /\ attempts' = 0
  /\ sleeps' = <<>>
  /\ exhausted' = FALSE
  /\ UNCHANGED <<incremental, current_after>>
  /\ UNCHANGED envVars
  /\ UNCHANGED fileVars
  /\ old' = [file |-> raw[idx + 1], meta |-> meta[idx + 1]]
  /\ UNCHANGED raised

\* get_series_info answers; fetch_series then settles start_date
FredInfoOK ==
  /\ src = "fred"
  /\ pc = "info"
  /\ after_ts' = FredStartDate(incremental, meta[idx])
  /\ pc' = "obs"
  /\ retry_count' = 0
  /\ attempts' = 0
  /\ sleeps' = <<>>
  /\ UNCHANGED <<idx, incremental, before_ts, current_after, all_posts,
                 exhausted, attempted, outcome>>
  /\ UNCHANGED envVars
  /\ UNCHANGED fileVars
  /\ UNCHANGED <<old, raised>>

\* get_observations answers
FredObsOK ==
  /\ src = "fred"
  /\ pc = "obs"
  /\ LET observations == FredResponse(idx, after_ts) IN
     /\ all_posts' = observations
     /\ IF observations = <<>>
        THEN pc' = "loop" /\ outcome' = "no_data"
        ELSE pc' = "save_series" /\ outcome' = "running"
  /\ retry_count' = 0
  /\ attempts' = 0
  /\ sleeps' = <<>>
  /\ UNCHANGED <<idx, incremental, after_ts, before_ts, current_after,
                 exhausted, attempted>>
  /\ UNCHANGED envVars
  /\ UNCHANGED fileVars
  /\ UNCHANGED <<old, raised>>

\* a request of _make_request (series info or observations) raises
FredRequestFail ==
  /\ src = "fred"
  /\ pc \in {"info", "obs"}
  /\ attempts' = attempts + 1
  /\ IF FredShouldRetry(retry_count)
     THEN /\ sleeps' = Append(sleeps, FredWaitTime(retry_count))
          /\ retry_count' = retry_count + 1
          /\ UNCHANGED <<pc, exhausted, outcome, raised>>
     ELSE /\ exhausted' = TRUE
          /\ outcome' = "request_failed"
          /\ pc' = AfterRaise
          /\ raised' = TRUE
          /\ UNCHANGED <<sleeps, retry_count>>
  /\ UNCHANGED <<idx, incremental, after_ts, before_ts, current_after,
                 all_posts, attempted>>
  /\ UNCHANGED envVars
  /\ UNCHANGED fileVars
  /\ UNCHANGED old

\* the merge of fetch_series, then save_series_data: the observations file
\* is written, then the metadata is built and written
FredSave ==
  /\ src = "fred"
  /\ pc = "save_series"
  /\ LET observations ==
           IF incremental /\ after_ts # None /\ raw[idx].exists
           THEN FredMerge(raw[idx].items, all_posts)
           ELSE all_posts
     IN  /\ raw' = [raw EXCEPT ![idx] = File(observations)]
         /\ IF FredSeriesHasDescription
            THEN /\ meta' = [meta EXCEPT ![idx] = LastObservationDate(observations)]
                 /\ outcome' = "saved"
                 /\ pc' = "loop"
                 /\ UNCHANGED raised
            ELSE /\ meta' = meta
                 /\ outcome' = "save_error"
                 /\ pc' = AfterRaise
                 /\ raised' = TRUE
  /\ UNCHANGED <<idx, incremental, after_ts, before_ts, current_after,
                 all_posts, retry_count, attempts, sleeps, exhausted, attempted>>
  /\ UNCHANGED envVars
  /\ UNCHANGED old

\* ------------------------------------------------------ the specification
Next ==
  \/ Keep(AddItem)
  \/ Keep(EditItem)
  \/ Keep(Tick)
  \/ Keep(StartRun)
  \/ Keep(FinishRun)
  \/ Keep(RedditBegin)
  \/ Keep(RedditPageOK)
  \/ Keep(RedditPageFail)
  \/ Keep(RedditSavePosts)
  \/ Keep(RedditSaveMeta)
  \/ Keep(TrendsBegin)
  \/ Keep(TrendsRequestOK)
  \/ Keep(TrendsRequestFail)
  \/ Keep(TrendsSave)
  \/ Keep(FredBegin)
  \/ Keep(FredInfoOK)
  \/ Keep(FredObsOK)
  \/ Keep(FredRequestFail)
  \/ Keep(FredSave)

Spec == Init /\ [][Next]_vars


\* the program's own steps: the script runs on until fetch_all returns
Program ==
  \/ Keep(FinishRun)
  \/ Keep(RedditBegin) \/ Keep(RedditPageOK) \/ Keep(RedditPageFail)
  \/ Keep(RedditSavePosts) \/ Keep(RedditSaveMeta)
  \/ Keep(TrendsBegin) \/ Keep(TrendsRequestOK) \/ Keep(TrendsRequestFail) \/ Keep(TrendsSave)
  \/ Keep(FredBegin) \/ Keep(FredInfoOK) \/ Keep(FredObsOK) \/ Keep(FredRequestFail) \/ Keep(FredSave)

\* ------------------------------------------------- the runs of fetch_all
\* SpecRun starts a fetcher on empty files against an upstream that holds any
\* of the item sets of one key and does not change, and lets fetch_all run
\* again and again.  A run is one sequential call: a step of it that can be
\* taken is taken (requests time out, sleeps end), hence WF on Program.
RunUpstreams(s) ==
  {S \in SUBSET [id : IF s = "reddit" THEN 1 .. MaxItems ELSE ItemTimes(s),
                  ts : ItemTimes(s), v : {Older(s)}] :
     /\ Cardinality(S) <= MaxItems
     /\ \A p, q \in S : p.id = q.id => p = q
     /\ IF s = "reddit" THEN {p.id : p \in S} = 1 .. Cardinality(S)
                        ELSE \A p \in S : p.id = p.ts}

InitRun ==
  /\ InitProgram
  /\ \E k \in Keys, S \in RunUpstreams(src) :
       upstream = [j \in Keys |-> IF j = k THEN S ELSE {}]
  /\ AuxIdle

NextRun == Keep(StartRun) \/ Program

SpecRun == InitRun /\ [][NextRun]_vars /\ WF_vars(Program)

\* ------------------------------------------------ the requests in time
\* SpecRate runs fetch_all as SpecRun does, with the clock of the rate
\* limiter: every step that sends a request goes through _rate_limit first
\* (RedditFetcher._make_request and FREDFetcher._make_request call it on
\* entry, TrendsFetcher.fetch_term before its try), a retry sleeps its
\* backoff after the failed request, and time passes between steps.
InitRate ==
  /\ InitProgram
  /\ \E k \in Keys, S \in RunUpstreams(src) :
       upstream = [j \in Keys |-> IF j = k THEN S ELSE {}]
  /\ AuxIdle

Elapse ==
  /\ limiter.elapsed < RateCap
  /\ limiter' = [limiter EXCEPT !.elapsed = @ + 1]
  /\ UNCHANGED <<src, now, upstream, raw, meta, pc, idx, incremental, after_ts,
                 before_ts, current_after, all_posts, retry_count, attempts,
                 sleeps, exhausted, attempted, outcome, old, raised, cycle>>
  /\ UNCHANGED preVars

\* a step A that sends one request, and sleeps the backoff it appended
Request(A) ==
  /\ A
  /\ \E over \in 0 .. MaxOvershoot :
       limiter' = Backoff(RateLimit(limiter, RATE_LIMIT_DELAY(src), over),
                          IF Len(sleeps') > Len(sleeps)
                          THEN sleeps'[Len(sleeps')] ELSE 0)
  /\ UNCHANGED <<cycle, preVars>>

\* a step A that sends none
Local(A) == A /\ UNCHANGED <<limiter, cycle, preVars>>

NextRate ==
  \/ Elapse
  \/ Local(StartRun)
  \/ Local(FinishRun)
  \/ Local(RedditBegin)
  \/ Request(RedditPageOK)
  \/ Request(RedditPageFail)
  \/ Local(RedditSavePosts)
  \/ Local(RedditSaveMeta)
  \/ Local(TrendsBegin)
  \/ Request(TrendsRequestOK)
  \/ Request(TrendsRequestFail)
  \/ Local(TrendsSave)
  \/ Local(FredBegin)
  \/ Request(FredInfoOK)
  \/ Request(FredObsOK)
  \/ Request(FredRequestFail)
  \/ Local(FredSave)

SpecRate == InitRate /\ [][NextRate]_vars

\* ------------------------------------------------- one run after another
\* SpecTwice runs fetch_all again and again against a source and a clock
\* that do not change, and keeps in cycle whether the run in progress has
\* given up a request (clean) and whether the run before it was an
\* incremental one that gave up none (done).
InitTwice ==
  /\ InitProgram
  /\ \E k \in Keys, S \in RunUpstreams(src) :
       upstream = [j \in Keys |-> IF j = k THEN S ELSE {}]
  /\ AuxIdle

Track(A) ==
  /\ A
  /\ cycle' = IF pc = "idle" THEN [cycle EXCEPT !.clean = TRUE]
              ELSE IF pc' = "idle"
              THEN [clean |-> TRUE, done |-> cycle.clean /\ incremental]
              ELSE [cycle EXCEPT !.clean = @ /\ (exhausted' => exhausted)]
  /\ UNCHANGED <<limiter, preVars>>

NextTwice ==
  \/ Track(StartRun)
  \/ Track(FinishRun)
  \/ Track(RedditBegin)
  \/ Track(RedditPageOK)
  \/ Track(RedditPageFail)
  \/ Track(RedditSavePosts)
  \/ Track(RedditSaveMeta)
  \/ Track(TrendsBegin)
  \/ Track(TrendsRequestOK)
  \/ Track(TrendsRequestFail)
  \/ Track(TrendsSave)
  \/ Track(FredBegin)
  \/ Track(FredInfoOK)
  \/ Track(FredObsOK)
  \/ Track(FredRequestFail)
  \/ Track(FredSave)

SpecTwice == InitTwice /\ [][NextTwice]_vars

\* ---------------------------------------------- the merges on drawn inputs
\* SpecMerge places a fetcher where its merge begins (save_posts entered;
\* fetch_series past its request, with a start_date and an observations
\* file), with the persisted list and the fetched list drawn from the lists
\* of at most MaxMergeLen items, and lets the save run.
MaxMergeLen == 2

MergeIds(s) == IF s = "reddit" THEN 1 .. MaxMergeLen ELSE ItemTimes(s)

MergeItems(s) ==
  {it \in [id : MergeIds(s), ts : ItemTimes(s), v : Values(s)] :
     s = "reddit" \/ it.id = it.ts}

\* lists in ascending time order with no natural key twice: what a save
\* leaves in a file, and what a source answers
MergeLists(s) ==
  {q \in UNION {[1 .. n -> MergeItems(s)] : n \in 0 .. MaxMergeLen} :
     \A i, j \in 1 .. Len(q) : i < j => q[i].ts <= q[j].ts /\ q[i].id # q[j].id}

InitMerge ==
  /\ src \in {"reddit", "fred"}
  /\ now = Now0(src) + 1
  /\ upstream = [k \in KeysOf(src) |-> {}]
  /\ incremental \in BOOLEAN
  /\ \E existing \in MergeLists(src) \ {<<>>} :
       /\ raw = [k \in KeysOf(src) |-> IF k = 1 THEN File(existing) ELSE NoFile]
       /\ meta = [k \in KeysOf(src) |->
                    IF k # 1 THEN None
                    ELSE IF src = "reddit" THEN LastCreatedUtc(existing)
                    ELSE LastObservationDate(existing)]
  /\ old = [file |-> raw[1], meta |-> meta[1]]
  /\ src = "fred" => incremental /\ meta[1] # None
  /\ after_ts = IF src = "reddit"
                THEN RedditAfterTimestamp(incremental, meta[1], now)
                ELSE FredStartDate(incremental, meta[1])
  /\ before_ts = IF src = "reddit" THEN now ELSE None
  /\ all_posts \in MergeLists(src) \ {<<>>}
  /\ \A i \in 1 .. Len(all_posts) : all_posts[i].ts >= after_ts
  /\ current_after = IF src = "reddit" THEN all_posts[Len(all_posts)].ts + 1 ELSE None
  /\ pc = IF src = "reddit" THEN "save_posts" ELSE "save_series"
  /\ idx = 1
  /\ retry_count = 0
  /\ attempts = 0
  /\ sleeps = <<>>
  /\ exhausted = FALSE
  /\ attempted = <<1>>
  /\ outcome = "running"
  /\ raised = FALSE
  /\ AuxIdle

NextMerge ==
  \/ Keep(RedditSavePosts)
  \/ Keep(RedditSaveMeta)
  \/ Keep(FredSave)

SpecMerge == InitMerge /\ [][NextMerge]_vars

\* --------------------------------------------- the saves, on any response
\* Each fetcher at its save, in either mode, with or without a file and a
\* checkpoint, holding a response that is any list of items: the response
\* need not hold the keys that were persisted.
InitSave ==
  /\ src \in Sources
  /\ now = Now0(src) + 1
  /\ upstream = [k \in KeysOf(src) |-> {}]
  /\ incremental \in BOOLEAN
  /\ \E existing \in MergeLists(src) :
       /\ raw = [k \in KeysOf(src) |->
                   IF k = 1 /\ existing # <<>> THEN File(existing) ELSE NoFile]
       /\ meta \in {[k \in KeysOf(src) |-> None],
                    [k \in KeysOf(src) |->
                       IF k # 1 \/ existing = <<>> THEN None
                       ELSE IF src = "reddit" THEN LastCreatedUtc(existing)
                       ELSE IF src = "fred" THEN LastObservationDate(existing)
                       ELSE TrendsLastDate(existing)]}
  /\ old = [file |-> raw[1], meta |-> meta[1]]
  /\ after_ts = IF src = "reddit"
                THEN RedditAfterTimestamp(incremental, meta[1], now)
                ELSE IF src = "fred" THEN FredStartDate(incremental, meta[1])
                ELSE TrendsTimeframeStart(incremental, meta[1], now)
  /\ before_ts = IF src = "fred" THEN None ELSE now
  /\ all_posts \in MergeLists(src) \ {<<>>}
  /\ current_after = IF src = "reddit" THEN all_posts[Len(all_posts)].ts + 1 ELSE None
  /\ pc = IF src = "reddit" THEN "save_posts"
          ELSE IF src = "fred" THEN "save_series" ELSE "save_term"
  /\ idx = 1
  /\ retry_count = 0
  /\ attempts = 0
  /\ sleeps = <<>>
  /\ exhausted = FALSE
  /\ attempted = <<1>>
  /\ outcome = "running"
  /\ raised = FALSE
  /\ AuxIdle

NextSave ==
  \/ Keep(RedditSavePosts)
  \/ Keep(RedditSaveMeta)
  \/ Keep(TrendsSave)
  \/ Keep(FredSave)

SpecSave == InitSave /\ [][NextSave]_vars


\* ------------------------------------------------------ RedditPreprocessor
\* A string is the sequence of its code points.
NUL == 0
TAB == 9
NEWLINE == 10
SPACE == 32
DOLLAR == 36
COMMA == 44
DOT == 46
Zero == 48
Five == 53
UpperK == 75
UpperM == 77
LowerK == 107
LowerM == 109

\* Optional[...]: None, or a value
Nothing == <<>>

Some(x) == <<x>>

\* \d, \s, [A-Z], [a-z] and the word characters of \b, on the code points
\* below 256
IsDigit(c) == c \in 48 .. 57

IsSpace(c) == c \in (9 .. 13) \cup (28 .. 32) \cup {133, 160}

IsUpper(c) == c \in 65 .. 90

IsLower(c) == c \in 97 .. 122

IsWord(c) == IsDigit(c) \/ IsUpper(c) \/ IsLower(c) \/ c = 95

\* where the longest run of IsDigit (IsSpace) that begins at i ends, plus one
DigitsEnd(t, i) ==
  IF i > Len(t) THEN i ELSE
  CHOOSE j \in i .. Len(t) + 1 :
    /\ j = Len(t) + 1 \/ ~IsDigit(t[j])
    /\ \A m \in i .. j - 1 : IsDigit(t[m])

SpacesEnd(t, i) ==
  IF i > Len(t) THEN i ELSE
  CHOOSE j \in i .. Len(t) + 1 :
    /\ j = Len(t) + 1 \/ ~IsSpace(t[j])
    /\ \A m \in i .. j - 1 : IsSpace(t[m])

RECURSIVE Concat(_)
Concat(q) == IF q = <<>> THEN <<>> ELSE Head(q) \o Concat(Tail(q))

\* A number is kept as its decimal numeral, [int, frac]: the digits before
\* the point without leading zeros, those after it without trailing zeros.
StripLeadingZeros(ds) ==
  LET nz == {k \in 1 .. Len(ds) : ds[k] # Zero} IN
  IF nz = {} THEN <<Zero>>
  ELSE SubSeq(ds, CHOOSE k \in nz : \A m \in nz : k <= m, Len(ds))

StripTrailingZeros(ds) ==
  LET nz == {k \in 1 .. Len(ds) : ds[k] # Zero} IN
  IF nz = {} THEN <<>>
  ELSE SubSeq(ds, 1, CHOOSE k \in nz : \A m \in nz : k >= m)

\* float(s) of a string of digits with at most one point in it
Float(ds) ==
  LET dots == {k \in 1 .. Len(ds) : ds[k] = DOT}
      dot == IF dots = {} THEN Len(ds) + 1 ELSE CHOOSE k \in dots : TRUE
  IN  [int |-> StripLeadingZeros(SubSeq(ds, 1, dot - 1)),
       frac |-> StripTrailingZeros(SubSeq(ds, dot + 1, Len(ds)))]

\* x * 10^n
TimesPowerOfTen(x, n) ==
  LET padded == x.frac \o [k \in 1 .. n |-> Zero] IN
  [int |-> StripLeadingZeros(x.int \o SubSeq(padded, 1, n)),
   frac |-> StripTrailingZeros(SubSeq(padded, n + 1, Len(padded)))]

\* a <= b on the numerals of two naturals
IntLeq(a, b) ==
  \/ Len(a) < Len(b)
  \/ /\ Len(a) = Len(b)
     /\ \/ a = b
        \/ \E k \in 1 .. Len(a) :
             /\ a[k] < b[k]
             /\ \A m \in 1 .. k - 1 : a[m] = b[m]

\* x <= y and x >= y, y a natural
Leq(x, y) == IF x.frac = <<>> THEN IntLeq(x.int, y.int)
             ELSE x.int # y.int /\ IntLeq(x.int, y.int)

Geq(x, y) == IntLeq(y.int, x.int)

Fifty == <<Five, Zero>>

Thousand == <<Zero, Zero, Zero>>

MinPrice == Float(Fifty \o Thousand)

MaxPrice == Float(Fifty \o Thousand \o Thousand)

\* 50000 <= amount <= 50000000
Reasonable(amount) == Geq(amount, MinPrice) /\ Leq(amount, MaxPrice)

RemoveCommas(ds) == SelectSeq(ds, LAMBDA c : c # COMMA)

\* pattern_km matched at position p: \$?\s*(\d+(?:\.\d+)?)\s*([KkMm]); every
\* quantifier is greedy and none can give a character back with success
MatchKM(t, p) ==
  LET a == IF p <= Len(t) /\ t[p] = DOLLAR THEN p + 1 ELSE p
      b == SpacesEnd(t, a)
      c == DigitsEnd(t, b)
      d == IF c <= Len(t) /\ t[c] = DOT /\ DigitsEnd(t, c + 1) > c + 1
           THEN DigitsEnd(t, c + 1) ELSE c
      z == SpacesEnd(t, d)
  IN  [ok |-> c > b /\ z <= Len(t) /\ t[z] \in {UpperK, LowerK, UpperM, LowerM},
       group1 |-> SubSeq(t, b, d - 1),
       group2 |-> IF z <= Len(t) THEN t[z] ELSE NUL]

\* pattern_full matched at position p: \$\s*(\d{1,3}(?:,\d{3})+|\d{5,})
RECURSIVE GroupsEnd(_, _)
GroupsEnd(t, i) ==
  IF /\ i + 3 <= Len(t)
     /\ t[i] = COMMA
     /\ \A m \in i + 1 .. i + 3 : IsDigit(t[m])
  THEN GroupsEnd(t, i + 4) ELSE i

MatchFull(t, p) ==
  LET b == SpacesEnd(t, p + 1)
      c == DigitsEnd(t, b)
      h == IF c - b > 3 THEN b + 3 ELSE c
      g == GroupsEnd(t, h)
      grouped == h > b /\ g > h
  IN  [ok |-> p <= Len(t) /\ t[p] = DOLLAR /\ (grouped \/ c - b >= 5),
       group1 |-> IF grouped THEN SubSeq(t, b, g - 1) ELSE SubSeq(t, b, c - 1)]

\* re.search: the match at the first position that has one
Search(Match(_, _), t) ==
  LET starts == {p \in 1 .. Len(t) : Match(t, p).ok} IN
  IF starts = {} THEN [ok |-> FALSE]
  ELSE Match(t, CHOOSE p \in starts : \A m \in starts : p <= m)

\* the full format before the K/M format
ExtractPriceFullFirst(t) ==
  LET km == Search(MatchKM, t)
      full == Search(MatchFull, t)
  IN  IF full.ok /\ Reasonable(Float(RemoveCommas(full.group1)))
      THEN Some(Float(RemoveCommas(full.group1)))
      ELSE IF km.ok
      THEN Some(TimesPowerOfTen(Float(km.group1),
                                IF km.group2 \in {UpperK, LowerK} THEN 3 ELSE 6))
      ELSE Nothing

ExtractPrice(t) ==
  LET km == Search(MatchKM, t)
      full == Search(MatchFull, t)
  IN  IF t = <<>> THEN Nothing
      ELSE IF km.ok
      THEN Some(TimesPowerOfTen(Float(km.group1),
                                IF km.group2 \in {UpperK, LowerK} THEN 3 ELSE 6))
      ELSE IF full.ok /\ Reasonable(Float(RemoveCommas(full.group1)))
      THEN Some(Float(RemoveCommas(full.group1)))
      ELSE Nothing

\* ---- extract_location
UpperT == 84
UpperX == 88
LowerA == 97

ToLower(c) == IF IsUpper(c) THEN c + 32 ELSE c

LowerEnd(t, i) ==
  IF i > Len(t) THEN i ELSE
  CHOOSE j \in i .. Len(t) + 1 :
    /\ j = Len(t) + 1 \/ ~IsLower(t[j])
    /\ \A m \in i .. j - 1 : IsLower(t[m])

\* \b between t[i - 1] and t[i]
Boundary(t, i) ==
  (i > 1 /\ i - 1 <= Len(t) /\ IsWord(t[i - 1])) # (i >= 1 /\ i <= Len(t) /\ IsWord(t[i]))

\* (?:\s+[A-Z][a-z]+)* from position i: where it ends, plus one
RECURSIVE WordsEnd(_, _)
WordsEnd(t, i) ==
  LET w == SpacesEnd(t, i) IN
  IF w > i /\ w <= Len(t) /\ IsUpper(t[w]) /\ LowerEnd(t, w + 1) > w + 1
  THEN WordsEnd(t, LowerEnd(t, w + 1)) ELSE i

\* pattern_city_state matched at position p:
\* \b([A-Z][a-z]+(?:\s+[A-Z][a-z]+)*),\s*([A-Z]{2})\b
MatchCityState(t, p) ==
  LET q == LowerEnd(t, p + 1)
      e == WordsEnd(t, q)
      f == SpacesEnd(t, e + 1)
  IN  [ok |-> /\ Boundary(t, p)
              /\ IsUpper(t[p])
              /\ q > p + 1
              /\ e <= Len(t) /\ t[e] = COMMA
              /\ f + 1 <= Len(t) /\ IsUpper(t[f]) /\ IsUpper(t[f + 1])
              /\ Boundary(t, f + 2),
       group1 |-> SubSeq(t, p, e - 1),
       group2 |-> IF f + 1 <= Len(t) THEN SubSeq(t, f, f + 1) ELSE <<>>]

\* f"{city}, {state}"
CityState(city, state) == city \o <<COMMA, SPACE>> \o state

\* re.search(r'\b' + re.escape(city_name) + r'\b', text, re.IGNORECASE)
MentionsCity(t, city_name) ==
  \E p \in 1 .. Len(t) - Len(city_name) + 1 :
    /\ \A k \in 1 .. Len(city_name) : ToLower(t[p + k - 1]) = ToLower(city_name[k])
    /\ Boundary(t, p)
    /\ Boundary(t, p + Len(city_name))

ExtractLocation(t, states, cities) ==
  LET match == Search(MatchCityState, t)
      found == {c \in cities : MentionsCity(t, c.city_ascii)}
  IN  IF t = <<>> THEN Nothing
      ELSE IF match.ok /\ match.group2 \in states
      THEN Some(CityState(match.group1, match.group2))
      ELSE IF found # {}
      THEN LET c == CHOOSE c \in found : TRUE IN Some(CityState(c.city_ascii, c.state_id))
      ELSE Nothing

\* uscities.csv with one city of 200,000 people or more: Ta, TX
LoadedCities == {[city_ascii |-> <<UpperT, LowerA>>, state_id |-> <<UpperT, UpperX>>]}

\* what _load_cities_data leaves: the fallback list when the file is not
\* there, the states and cities of the file, or nothing when reading it fails
CitiesData ==
  {[us_states |-> FallbackStates, city_to_state |-> {}],
   [us_states |-> {c.state_id : c \in LoadedCities}, city_to_state |-> LoadedCities],
   [us_states |-> {}, city_to_state |-> {}]}

LocationChunks ==
  {<<UpperT, LowerA>>, <<UpperT, LowerA, COMMA>>, <<SPACE>>, <<COMMA>>,
   <<UpperT, UpperX>>, <<UpperX, UpperT>>, <<UpperX, UpperT, SPACE>>, <<LowerA>>}

\* ---- normalize_text
CR == 13
UnitSeparator == 31
DoubleQuote == 34
SingleQuote == 39
Hyphen == 45
UpperA == 65
DEL == 127
PAD == 128
NoBreakSpace == 160
EnDash == 8211
EmDash == 8212
LeftSingleQuote == 8216
RightSingleQuote == 8217
LeftDoubleQuote == 8220
RightDoubleQuote == 8221
Ellipsis == 8230
Prime == 8242
DoublePrime == 8243
GrinningFace == 128512

\* text.replace(c, r)
Replace(t, c, r) ==
  Concat([i \in 1 .. Len(t) |-> IF t[i] = c THEN r ELSE <<t[i]>>])

ReplaceQuotes(t) ==
  Replace(Replace(Replace(Replace(Replace(Replace(t,
    LeftDoubleQuote, <<DoubleQuote>>),
    RightDoubleQuote, <<DoubleQuote>>),
    LeftSingleQuote, <<SingleQuote>>),
    RightSingleQuote, <<SingleQuote>>),
    Prime, <<SingleQuote>>),
    DoublePrime, <<DoubleQuote>>)

ReplaceUnicode(t) ==
  Replace(Replace(Replace(Replace(t,
    EnDash, <<Hyphen>>),
    EmDash, <<Hyphen, Hyphen>>),
    Ellipsis, <<DOT, DOT, DOT>>),
    NoBreakSpace, <<SPACE>>)

RemoveNonAscii(t) == SelectSeq(t, LAMBDA c : c < 128)

\* a filter that lets every character of a line ending through
RemoveControlButCR(t) ==
  SelectSeq(t, LAMBDA c : c >= 32 \/ c \in {NEWLINE, TAB, CR})

RemoveControl(t) == SelectSeq(t, LAMBDA c : c >= 32 \/ c \in {NEWLINE, TAB})

NormalizeText(t) ==
  IF t = <<>> THEN t
  ELSE RemoveControl(RemoveNonAscii(ReplaceUnicode(ReplaceQuotes(Replace(t, NUL, <<>>)))))

MaxTextLen == 3

NormalizeChars ==
  {NUL, TAB, NEWLINE, CR, UnitSeparator, SPACE, UpperA, DEL, PAD, NoBreakSpace,
   EnDash, EmDash, LeftSingleQuote, RightSingleQuote, LeftDoubleQuote,
   RightDoubleQuote, Ellipsis, Prime, DoublePrime, GrinningFace}

NormalizeTexts == UNION {[1 .. n -> NormalizeChars] : n \in 0 .. MaxTextLen}

\* the texts: at most MaxChunks pieces, one after the other
MaxChunks == 4

TextsOf(chunks) ==
  {Concat(q) : q \in UNION {[1 .. n -> chunks] : n \in 0 .. MaxChunks}}

PriceChunks ==
  {<<DOLLAR>>, <<SPACE>>, <<Five>>, Fifty, Thousand, Fifty \o Thousand,
   <<DOT>>, <<COMMA>>, <<LowerK>>, <<UpperM>>}

Methods == {"extract_price", "extract_location", "normalize_text"}

Texts(f) == IF f = "extract_price" THEN TextsOf(PriceChunks)
            ELSE IF f = "extract_location" THEN TextsOf(LocationChunks)
            ELSE NormalizeTexts

Apply(f, t) == IF f = "extract_price" THEN ExtractPrice(t)
               ELSE IF f = "extract_location"
               THEN ExtractLocation(t, us_states, city_to_state)
               ELSE Some(NormalizeText(t))

InitText ==
  /\ InitProgram
  /\ src = "reddit"
  /\ upstream = [k \in Keys |-> {}]
  /\ limiter = NewLimiter
  /\ cycle = NoCycle
  /\ fn \in Methods
  /\ text \in Texts(fn)
  /\ result = Nothing
  /\ returned = FALSE
  /\ \E d \in CitiesData :
       /\ fn # "extract_location" => d.city_to_state = {} /\ d.us_states # {}
       /\ us_states = d.us_states
       /\ city_to_state = d.city_to_state
  /\ BatchIdle

Call(f) ==
  /\ fn = f
  /\ ~returned
  /\ result' = Apply(f, text)
  /\ returned' = TRUE
  /\ UNCHANGED <<fn, text, us_states, city_to_state, batchVars, limiter, cycle>>
  /\ UNCHANGED <<src, now, upstream, raw, meta, pc, idx, incremental, after_ts,
                 before_ts, current_after, all_posts, retry_count, attempts,
                 sleeps, exhausted, attempted, outcome, old, raised>>

NextText ==
  \/ Call("extract_price")
  \/ Call("extract_location")
  \/ Call("normalize_text")

SpecText == InitText /\ [][NextText]_vars

\* ------------------------------------------------------ ZillowPreprocessor
\* METRIC_MAPPING, in its order: file name, metric type
METRIC_MAPPING ==
  <<<<"median_sale_price.csv", "median_sale_price">>,
    <<"zhvi_home_value.csv", "zhvi">>,
    <<"active_listings.csv", "active_listings">>,
    <<"market_heat_index.csv", "market_heat_index">>,
    <<"new_construction_median_sale_price.csv", "new_construction_median_sale_price">>,
    <<"new_construction_sales_count.csv", "new_construction_sales_count">>,
    <<"new_homeowner_affordability.csv", "new_homeowner_affordability">>,
    <<"new_listings.csv", "new_listings">>,
    <<"sales_count.csv", "sales_count">>>>

\* METRIC_MAPPING.get(filename), "" for None
MetricType(name) ==
  LET ks == {k \in 1 .. Len(METRIC_MAPPING) : METRIC_MAPPING[k][1] = name} IN
  IF ks = {} THEN "" ELSE METRIC_MAPPING[CHOOSE k \in ks : TRUE][2]

\* an empty cell of the CSV
NaN == 0

MaxRegions == 2
MaxDates == 2

CellValues == {1, 2}

\* the names of the date columns, as <<year, month, day>> for 'YYYY-MM-DD'
DateNames == {<<2024, 1, 31>>, <<2024, 2, 29>>, <<2024, 3, 31>>}

\* pd.to_datetime of a column name: the day, counted from 1970-01-01
ToDatetime(name) ==
  LET y == IF name[2] <= 2 THEN name[1] - 1 ELSE name[1]
      era == y \div 400
      yoe == y - era * 400
      mp == IF name[2] > 2 THEN name[2] - 3 ELSE name[2] + 9
      doy == (153 * mp + 2) \div 5 + name[3] - 1
      doe == yoe * 365 + yoe \div 4 - yoe \div 100 + doy
  IN  era * 146097 + doe - 719468

\* A wide table: the five metadata columns, of which RegionID stands for
\* all and differs from row to row, and the date columns; cell[i][j] is the
\* cell of row i in date column j.
RegionIDs(n) ==
  {q \in [1 .. n -> 1 .. MaxRegions] : \A i, j \in 1 .. n : i # j => q[i] # q[j]}

\* the date columns of a table of m dates, in calendar order
DateCols(m) ==
  {q \in [1 .. m -> DateNames] : \A i, j \in 1 .. m : i < j => q[i][2] < q[j][2]}

\* the cells of a table of n regions and m dates: a value or an empty cell
Cells(n, m) == [1 .. n -> [1 .. m -> CellValues \cup {NaN}]]

\* the frame pd.read_csv returns
WideTable(r, d, c) == [RegionID |-> r, date_cols |-> d, cell |-> c]

NoInput == [exists |-> FALSE, df |-> <<>>]

Input(df) == [exists |-> TRUE, df |-> df]

\* pd.melt: the rows of the first date column, then those of the second, ...
Melt(df, metric_type) ==
  Concat([j \in 1 .. Len(df.date_cols) |->
            [i \in 1 .. Len(df.RegionID) |->
               [region_id |-> df.RegionID[i],
                metric_type |-> metric_type,
                date |-> ToDatetime(df.date_cols[j]),
                value |-> df.cell[i][j]]]])

\* a dropna that drops nothing
KeepNA(rows) == rows

\* df_long.dropna(subset=['value'])
DropNA(rows) == SelectSeq(rows, LAMBDA r : r.value # NaN)

\* process_file: the exception it raises, or "none" and the rows it returns
ProcessFile(dir, name) ==
  IF ~dir[name].exists
  THEN [error |-> "FileNotFoundError", rows |-> <<>>]
  ELSE IF MetricType(name) = ""
  THEN [error |-> "ValueError", rows |-> <<>>]
  ELSE IF dir[name].df.date_cols = <<>>
  THEN [error |-> "IndexError", rows |-> <<>>]
  ELSE [error |-> "none", rows |-> DropNA(Melt(dir[name].df, MetricType(name)))]

\* the names process_file is called with: two of METRIC_MAPPING, one not
FileNames == {"median_sale_price.csv", "zhvi_home_value.csv", "zillow_combined.csv"}

\* a table of one region and one date column
OneCell(v) == [RegionID |-> <<1>>, date_cols |-> <<<<2024, 1, 31>>>>, cell |-> <<<<v>>>>]

NoDates == [RegionID |-> <<1>>, date_cols |-> <<>>, cell |-> <<<<>>>>]

\* where the generic "except Exception: ...; raise" of process_all lets the
\* exception go (TRUE), or would swallow it (FALSE)
ProcessAllSwallows == FALSE

ProcessAllReraises == TRUE

\* -------------------------------------------- RedditPreprocessor, batches
SUBREDDITS == <<"FirstTimeHomeBuyer", "SameGrassButGreener">>

\* the posts files drawn for subreddit k: posts with created_utc k and
\* 2 + k, removed or not
PostsFiles(k) ==
  LET p == [id |-> k, created_utc |-> k, removed |-> FALSE]
      q == [id |-> 2 + k, created_utc |-> 2 + k, removed |-> FALSE]
      x == [id |-> 4 + k, created_utc |-> 4 + k, removed |-> TRUE]
  IN  {<<>>, <<p>>, <<x>>, <<q, p>>, <<p, x>>}

\* a process_subreddit that opens the file without looking for it
ProcessSubredditUnchecked(dir, k) ==
  IF ~dir[SUBREDDITS[k]].exists
  THEN [error |-> "FileNotFoundError", warning |-> FALSE, rows |-> <<>>]
  ELSE LET kept == SelectSeq(dir[SUBREDDITS[k]].df, LAMBDA post : ~post.removed) IN
       IF kept = <<>>
       THEN [error |-> "KeyError", warning |-> FALSE, rows |-> <<>>]
       ELSE [error |-> "none", warning |-> FALSE,
             rows |-> [i \in 1 .. Len(kept) |->
                         [post_id |-> kept[i].id,
                          subreddit |-> SUBREDDITS[k],
                          created_utc |-> kept[i].created_utc]]]

\* process_subreddit: the exception it raises or "none", whether it warns,
\* and the rows of the frame it returns
ProcessSubreddit(dir, k) ==
  IF ~dir[SUBREDDITS[k]].exists
  THEN [error |-> "none", warning |-> TRUE, rows |-> <<>>]
  ELSE LET kept == SelectSeq(dir[SUBREDDITS[k]].df, LAMBDA post : ~post.removed) IN
       IF kept = <<>>
       THEN [error |-> "KeyError", warning |-> FALSE, rows |-> <<>>]
       ELSE [error |-> "none", warning |-> FALSE,
             rows |-> [i \in 1 .. Len(kept) |->
                         [post_id |-> kept[i].id,
                          subreddit |-> SUBREDDITS[k],
                          created_utc |-> kept[i].created_utc]]]

RECURSIVE SortByCreatedUtc(_)
SortByCreatedUtc(rows) ==
  IF rows = <<>> THEN <<>>
  ELSE LET n == Len(rows)
           rest == SortByCreatedUtc(SubSeq(rows, 1, n - 1))
           before == SelectSeq(rest, LAMBDA r : r.created_utc <= rows[n].created_utc)
           after == SelectSeq(rest, LAMBDA r : r.created_utc > rows[n].created_utc)
       IN  before \o <<rows[n]>> \o after

\* -------------------------------------------- TrendsPreprocessor, batches
TERM_KEYS == <<"estate_sale", "foreclosure_auction", "home_insurance",
               "mortgage_assumption">>

MaxRows == 2

Scores == {1, 2}

\* the dates drawn: a Friday, the Sunday and the Monday after it, and a
\* Monday two weeks later
TrendsDates == {StartDay, StartDay + 2, StartDay + 3, StartDay + 17}

\* the data files drawn: rows in date order, a score or an empty cell
DataFiles ==
  {q \in UNION {[1 .. n -> [date : TrendsDates, interest_score : Scores \cup {NaN}]] :
                  n \in 0 .. MaxRows} :
     \A i, j \in 1 .. Len(q) : i < j => q[i].date < q[j].date}

\* a term's files: the data file, and whether the metadata file is there
NoTermInput == [exists |-> FALSE, metadata |-> FALSE, df |-> <<>>]

TermInput(df, m) == [exists |-> TRUE, metadata |-> m, df |-> df]

\* process_term
ProcessTerm(dir, k) ==
  IF ~dir[TERM_KEYS[k]].exists
  THEN [error |-> "none", warning |-> TRUE, rows |-> <<>>]
  ELSE IF ~dir[TERM_KEYS[k]].metadata
  THEN [error |-> "FileNotFoundError", warning |-> FALSE, rows |-> <<>>]
  ELSE [error |-> "none", warning |-> FALSE,
        rows |-> [i \in 1 .. Len(dir[TERM_KEYS[k]].df) |->
                    [date |-> dir[TERM_KEYS[k]].df[i].date,
                     search_term |-> TERM_KEYS[k],
                     interest_score |->
                       IF dir[TERM_KEYS[k]].df[i].interest_score = NaN THEN 0
                       ELSE dir[TERM_KEYS[k]].df[i].interest_score]]]

\* resample('W-SUN', label='left'): the bin of a day ends on the Sunday on
\* or after it and is labelled with the Sunday before that one
WeekEnd(d) == d + ((7 - ((d + 4) % 7)) % 7)

WeekLabel(d) == WeekEnd(d) - 7

\* round() of num / den, halves to the even neighbour
RoundHalfEven(num, den) ==
  LET f == num \div den
      r == 2 * (num % den)
  IN  IF r < den THEN f
      ELSE IF r > den THEN f + 1
      ELSE IF f % 2 = 0 THEN f ELSE f + 1

RECURSIVE Sum(_)
Sum(q) == IF q = <<>> THEN 0 ELSE Head(q) + Sum(Tail(q))

\* the weekly frame of one term: a row for every week from its first to
\* its last; has_nan when a week between has no day, which astype(int) refuses
Weekly(rows) ==
  LET first == WeekLabel(rows[1].date)
      last == WeekLabel(rows[Len(rows)].date)
      weeks == (last - first) \div 7 + 1
      scores(w) == LET in == SelectSeq(rows, LAMBDA r : WeekLabel(r.date) = first + 7 * (w - 1))
                   IN  [i \in 1 .. Len(in) |-> in[i].interest_score]
  IN  [has_nan |-> \E w \in 1 .. weeks : scores(w) = <<>>,
       rows |-> [w \in 1 .. weeks |->
                   [week_start_date |-> first + 7 * (w - 1),
                    search_term |-> rows[1].search_term,
                    avg_interest_score |->
                      IF scores(w) = <<>> THEN NaN
                      ELSE RoundHalfEven(Sum(scores(w)), Len(scores(w)))]]]

\* sort_values(['week_start_date', 'search_term']) of frames given in the
\* order of TERM_KEYS, whose search terms are in alphabetical order
RECURSIVE SortByWeek(_)
SortByWeek(rows) ==
  IF rows = <<>> THEN <<>>
  ELSE LET n == Len(rows)
           rest == SortByWeek(SubSeq(rows, 1, n - 1))
           before == SelectSeq(rest, LAMBDA r : r.week_start_date <= rows[n].week_start_date)
           after == SelectSeq(rest, LAMBDA r : r.week_start_date > rows[n].week_start_date)
       IN  before \o <<rows[n]>> \o after

\* ------------------------------------------- process_file and process_all
Units(f) ==
  IF f = "ZillowPreprocessor.process_all"
  THEN [k \in 1 .. Len(METRIC_MAPPING) |-> METRIC_MAPPING[k][1]]
  ELSE IF f = "RedditPreprocessor.process_all" THEN SUBREDDITS
  ELSE IF f = "TrendsPreprocessor.process_all" THEN TERM_KEYS
  ELSE <<>>

NoOutput == [exists |-> FALSE, rows |-> <<>>]

Output(rows) == [exists |-> TRUE, rows |-> rows]

InitBatch ==
  /\ InitProgram
  /\ src = "reddit"
  /\ upstream = [k \in Keys |-> {}]
  /\ limiter = NewLimiter
  /\ cycle = NoCycle
  /\ text = <<>>
  /\ result = Nothing
  /\ returned = FALSE
  /\ us_states = FallbackStates
  /\ city_to_state = {}
  /\ fn \in {"process_file", "ZillowPreprocessor.process_all",
             "RedditPreprocessor.process_all", "TrendsPreprocessor.process_all"}
  /\ filename \in IF fn = "process_file" THEN FileNames ELSE {""}
  /\ \/ /\ fn = "process_file"
        /\ \/ \E f \in {NoInput, Input(NoDates), Input(OneCell(1))} :
                raw_dir = [n \in {filename} |-> f]
           \/ /\ MetricType(filename) = "median_sale_price"
              /\ \E n \in 0 .. MaxRegions, m \in 0 .. MaxDates :
                 \E r \in RegionIDs(n), d \in DateCols(m), c \in Cells(n, m) :
                   raw_dir = [k \in {filename} |-> Input(WideTable(r, d, c))]
     \/ /\ fn = "ZillowPreprocessor.process_all"
        /\ \E k \in 1 .. Len(METRIC_MAPPING) :
           \E f \in {NoInput, Input(NoDates), Input(OneCell(NaN)), Input(OneCell(1))} :
             raw_dir = [n \in {METRIC_MAPPING[j][1] : j \in 1 .. Len(METRIC_MAPPING)} |->
                          IF n = METRIC_MAPPING[k][1] THEN f ELSE Input(OneCell(2))]
     \/ /\ fn = "RedditPreprocessor.process_all"
        /\ \E f1 \in {NoInput} \cup {Input(q) : q \in PostsFiles(1)} :
           \E f2 \in {NoInput} \cup {Input(q) : q \in PostsFiles(2)} :
             raw_dir = [n \in {SUBREDDITS[1], SUBREDDITS[2]} |->
                          IF n = SUBREDDITS[1] THEN f1 ELSE f2]
     \/ /\ fn = "TrendsPreprocessor.process_all"
        /\ \E k \in 1 .. Len(TERM_KEYS) :
           \E f \in {NoTermInput} \cup {TermInput(q, m) : q \in DataFiles, m \in BOOLEAN} :
           \E there \in [1 .. Len(TERM_KEYS) -> BOOLEAN] :
             raw_dir = [n \in {TERM_KEYS[j] : j \in 1 .. Len(TERM_KEYS)} |->
                          IF n = TERM_KEYS[k] THEN f
                          ELSE LET j == CHOOSE j \in 1 .. Len(TERM_KEYS) : TERM_KEYS[j] = n IN
                               IF there[j]
                               THEN TermInput(<<[date |-> StartDay, interest_score |-> 2]>>, TRUE)
                               ELSE NoTermInput]
  /\ unit = 0
  /\ all_data = <<>>
  /\ processed = NoOutput
  /\ log = <<>>
  /\ error = "none"
  /\ AggIdle
  /\ ExcelIdle

\* what no step of a preprocessor changes
BatchFrame ==
  /\ UNCHANGED <<fn, text, us_states, city_to_state, filename, raw_dir, limiter, cycle>>
  /\ UNCHANGED <<aggVars, excelVars>>
  /\ UNCHANGED <<src, now, upstream, raw, meta, pc, idx, incremental, after_ts,
                 before_ts, current_after, all_posts, retry_count, attempts,
                 sleeps, exhausted, attempted, outcome, old, raised>>

CallProcessFile ==
  /\ fn = "process_file"
  /\ ~returned /\ error = "none"
  /\ LET r == ProcessFile(raw_dir, filename) IN
     IF r.error = "none"
     THEN /\ result' = Some(r.rows)
          /\ returned' = TRUE
          /\ UNCHANGED error
     ELSE /\ error' = r.error
          /\ UNCHANGED <<result, returned>>
  /\ UNCHANGED <<unit, all_data, processed, log>>
  /\ BatchFrame

\* ZillowPreprocessor.process_all, one turn of its loop
ZillowProcessUnit ==
  /\ fn = "ZillowPreprocessor.process_all"
  /\ ~returned /\ error = "none"
  /\ unit < Len(METRIC_MAPPING)
  /\ unit' = unit + 1
  /\ LET r == ProcessFile(raw_dir, METRIC_MAPPING[unit + 1][1]) IN
     IF r.error = "none"
     THEN /\ all_data' = Append(all_data, r.rows)
          /\ UNCHANGED <<log, error>>
     ELSE /\ log' = Append(log, [level |-> "ERROR", unit |-> METRIC_MAPPING[unit + 1][1]])
          /\ error' = IF ProcessAllReraises THEN r.error ELSE "none"
          /\ UNCHANGED all_data
  /\ UNCHANGED <<result, returned, processed>>
  /\ BatchFrame

\* ZillowPreprocessor.process_all after its loop
ZillowCombine ==
  /\ fn = "ZillowPreprocessor.process_all"
  /\ ~returned /\ error = "none"
  /\ unit = Len(METRIC_MAPPING)
  /\ IF all_data = <<>>
     THEN /\ error' = "ValueError"
          /\ UNCHANGED <<result, returned, processed>>
     ELSE /\ processed' = Output(Concat(all_data))
          /\ result' = Some(Concat(all_data))
          /\ returned' = TRUE
          /\ UNCHANGED error
  /\ UNCHANGED <<unit, all_data, log>>
  /\ BatchFrame

\* RedditPreprocessor.process_all, one of its two process_subreddit calls
RedditProcessUnit ==
  /\ fn = "RedditPreprocessor.process_all"
  /\ ~returned /\ error = "none"
  /\ unit < Len(SUBREDDITS)
  /\ unit' = unit + 1
  /\ LET r == ProcessSubreddit(raw_dir, unit + 1) IN
     /\ error' = r.error
     /\ log' = IF r.warning
               THEN Append(log, [level |-> "WARNING", unit |-> SUBREDDITS[unit + 1]])
               ELSE log
     /\ all_data' = IF r.error = "none" /\ r.rows # <<>>
                    THEN Append(all_data, r.rows) ELSE all_data
  /\ UNCHANGED <<result, returned, processed>>
  /\ BatchFrame

\* RedditPreprocessor.process_all after the two calls
RedditCombine ==
  /\ fn = "RedditPreprocessor.process_all"
  /\ ~returned /\ error = "none"
  /\ unit = Len(SUBREDDITS)
  /\ returned' = TRUE
  /\ IF all_data = <<>>
     THEN /\ log' = Append(log, [level |-> "WARNING", unit |-> ""])
          /\ result' = Some(<<>>)
          /\ UNCHANGED processed
     ELSE /\ processed' = Output(SortByCreatedUtc(Concat(all_data)))
          /\ result' = Some(SortByCreatedUtc(Concat(all_data)))
          /\ UNCHANGED log
  /\ UNCHANGED <<unit, all_data, error>>
  /\ BatchFrame

\* TrendsPreprocessor.process_all, one turn of its loop
TrendsProcessUnit ==
  /\ fn = "TrendsPreprocessor.process_all"
  /\ ~returned /\ error = "none"
  /\ unit < Len(TERM_KEYS)
  /\ unit' = unit + 1
  /\ LET r == ProcessTerm(raw_dir, unit + 1) IN
     /\ log' = IF r.warning
               THEN Append(log, [level |-> "WARNING", unit |-> TERM_KEYS[unit + 1]])
               ELSE IF r.error # "none"
               THEN Append(log, [level |-> "ERROR", unit |-> TERM_KEYS[unit + 1]])
               ELSE log
     /\ all_data' = IF r.error = "none" /\ r.rows # <<>>
                    THEN Append(all_data, r.rows) ELSE all_data
  /\ UNCHANGED <<result, returned, processed, error>>
  /\ BatchFrame

\* TrendsPreprocessor.process_all after its loop
TrendsCombine ==
  /\ fn = "TrendsPreprocessor.process_all"
  /\ ~returned /\ error = "none"
  /\ unit = Len(TERM_KEYS)
  /\ IF all_data = <<>>
     THEN /\ log' = Append(log, [level |-> "WARNING", unit |-> ""])
          /\ result' = Some(<<>>)
          /\ returned' = TRUE
          /\ UNCHANGED <<processed, error>>
     ELSE IF \E i \in 1 .. Len(all_data) : Weekly(all_data[i]).has_nan
     THEN /\ error' = "IntCastingNaNError"
          /\ UNCHANGED <<result, returned, processed, log>>
     ELSE LET combined_df ==
                SortByWeek(Concat([i \in 1 .. Len(all_data) |-> Weekly(all_data[i]).rows]))
          IN  /\ processed' = Output(combined_df)
              /\ result' = Some(combined_df)
              /\ returned' = TRUE
              /\ UNCHANGED <<error, log>>
  /\ UNCHANGED <<unit, all_data>>
  /\ BatchFrame

NextBatch ==
  \/ CallProcessFile
  \/ ZillowProcessUnit
  \/ ZillowCombine
  \/ RedditProcessUnit
  \/ RedditCombine
  \/ TrendsProcessUnit
  \/ TrendsCombine

SpecBatch == InitBatch /\ [][NextBatch]_vars

\* ------------------------------ ZillowPreprocessor, the pre-computed tables
\* main() passes the facts process_all returned to create_city_latest_table
\* and its table to create_state_aggregated_table.  A frame is its column
\* names and its rows, a row a function from the column names.
\* an empty StateName cell (the row of the United States has one)
NoState == "NaN"

\* the regions of the facts drawn: two metros of one state, a county that
\* has the name and the state of the first, a metro of another state and
\* the country; region_id is the place in this list
Regions ==
  <<[region_name |-> "Austin, TX", state_name |-> "TX", region_type |-> "msa"],
    [region_name |-> "Dallas, TX", state_name |-> "TX", region_type |-> "msa"],
    [region_name |-> "Austin, TX", state_name |-> "TX", region_type |-> "county"],
    [region_name |-> "Fresno, CA", state_name |-> "CA", region_type |-> "msa"],
    [region_name |-> "United States", state_name |-> NoState, region_type |-> "country"]>>

\* the metrics of the facts drawn, in the order of METRIC_MAPPING
AggMetrics == <<"zhvi", "active_listings">>

AggDates == <<ToDatetime(<<2024, 1, 31>>), ToDatetime(<<2024, 2, 29>>)>>

\* the strings of the key columns, as Python orders them
Alphabetical ==
  <<"Austin, TX", "CA", "Dallas, TX", "Fresno, CA", "TX", "United States",
    "active_listings", "country", "county", "msa", "zhvi">>

Rank(s) == CHOOSE i \in 1 .. Len(Alphabetical) : Alphabetical[i] = s

\* a < b for two tuples of strings of one length
LexLess(a, b) ==
  \E i \in 1 .. Len(a) :
    /\ Rank(a[i]) < Rank(b[i])
    /\ \A j \in 1 .. (i - 1) : a[j] = b[j]

\* the tuples of a set, ascending
RECURSIVE Ascending(_)
Ascending(S) ==
  IF S = {} THEN <<>>
  ELSE LET m == CHOOSE x \in S : \A y \in S \ {x} : LexLess(x, y)
       IN  <<m>> \o Ascending(S \ {m})

FactColumns ==
  <<"region_id", "region_name", "region_type", "state_name", "metric_type",
    "date", "value">>

NumFactKeys == Len(Regions) * Len(AggDates) * Len(AggMetrics)

\* the k-th fact of a combined file, which holds metric after metric, date
\* after date and region after region, with value v
Fact(k, v) ==
  LET r == ((k - 1) % Len(Regions)) + 1
      d == (((k - 1) \div Len(Regions)) % Len(AggDates)) + 1
      m == ((k - 1) \div (Len(Regions) * Len(AggDates))) + 1
  IN  [region_id |-> r,
       region_name |-> Regions[r].region_name,
       region_type |-> Regions[r].region_type,
       state_name |-> Regions[r].state_name,
       metric_type |-> AggMetrics[m],
       date |-> AggDates[d],
       value |-> v]

MaxFacts == 3

\* df.sort_values('date'): rows of one date keep their order here; the
\* facts drawn hold one row for a region, a metric and a date
RECURSIVE SortValuesByDate(_)
SortValuesByDate(rows) ==
  IF rows = <<>> THEN <<>>
  ELSE LET n == Len(rows)
           rest == SortValuesByDate(SubSeq(rows, 1, n - 1))
           before == SelectSeq(rest, LAMBDA r : r.date <= rows[n].date)
           after == SelectSeq(rest, LAMBDA r : r.date > rows[n].date)
       IN  before \o <<rows[n]>> \o after

\* the group key of a row
KeyOf(row, by) == [i \in 1 .. Len(by) |-> row[by[i]]]

\* the group keys of df.groupby(by), ascending; dropna=True is the default:
\* a row with an empty key cell is in no group
GroupKeys(rows, by) ==
  Ascending({k \in {KeyOf(rows[i], by) : i \in 1 .. Len(rows)} :
               \A i \in 1 .. Len(k) : k[i] # NoState})

Members(rows, by, key) == SelectSeq(rows, LAMBDA r : KeyOf(r, by) = key)

LatestBy == <<"region_name", "state_name", "metric_type", "region_type">>

\* df_sorted.groupby([...]).last().reset_index(): no cell of the facts is
\* empty, so the last cell of every column is that of the group's last row
GroupByLast(rows) ==
  LET keys == GroupKeys(rows, LatestBy) IN
  [g \in 1 .. Len(keys) |->
     LET in == Members(rows, LatestBy, keys[g]) IN in[Len(in)]]

PivotIndex == <<"region_name", "state_name", "region_type">>

\* df_latest.pivot_table(index=[...], columns='metric_type', values='value',
\* aggfunc='first').reset_index()
PivotTable(rows) ==
  LET keys == GroupKeys(rows, PivotIndex)
      found == GroupKeys(rows, <<"metric_type">>)
      metrics == [j \in 1 .. Len(found) |-> found[j][1]]
      cols == PivotIndex \o metrics
      cell(key, c) ==
        LET in == SelectSeq(Members(rows, PivotIndex, key),
                            LAMBDA r : r.metric_type = c)
        IN  IF in = <<>> THEN NaN ELSE in[1].value
  IN  [columns |-> cols,
       rows |-> [g \in 1 .. Len(keys) |->
                   [c \in {cols[j] : j \in 1 .. Len(cols)} |->
                      IF \E j \in 1 .. Len(PivotIndex) : PivotIndex[j] = c
                      THEN keys[g][CHOOSE j \in 1 .. Len(PivotIndex) : PivotIndex[j] = c]
                      ELSE cell(keys[g], c)]]]

DatesBy == <<"region_name", "state_name">>

\* df_latest.groupby(['region_name', 'state_name'])['date'].max().reset_index()
LatestDates(rows) ==
  LET keys == GroupKeys(rows, DatesBy) IN
  [g \in 1 .. Len(keys) |->
     LET in == Members(rows, DatesBy, keys[g]) IN
     [region_name |-> keys[g][1],
      state_name |-> keys[g][2],
      date |-> MaxOf({in[i].date : i \in 1 .. Len(in)})]]

\* df_pivot.merge(latest_dates, on=['region_name', 'state_name'])
Merge(df_pivot, latest_dates) ==
  [columns |-> df_pivot.columns \o <<"date">>,
   rows |-> Concat([i \in 1 .. Len(df_pivot.rows) |->
                      LET l == df_pivot.rows[i]
                          on == SelectSeq(latest_dates,
                                          LAMBDA r : KeyOf(r, DatesBy) = KeyOf(l, DatesBy))
                      IN  [j \in 1 .. Len(on) |->
                             [c \in DOMAIN l \cup {"date"} |->
                                IF c = "date" THEN on[j].date ELSE l[c]]]])]

\* create_city_latest_table
CreateCityLatestTable(df) ==
  LET df_sorted == SortValuesByDate(df.rows)
      df_latest == GroupByLast(df_sorted)
  IN  Merge(PivotTable(df_latest), LatestDates(df_latest))

SUM_METRICS ==
  {"active_listings", "new_listings", "sales_count", "new_construction_sales_count"}

\* the entry of agg_dict for a column, "" for none
AggOf(col) ==
  IF col = "state_name" THEN ""
  ELSE IF col = "region_name" THEN "count"
  ELSE IF col = "latest_date" THEN "max"
  ELSE IF col \in SUM_METRICS THEN "sum"
  ELSE IF col \notin {"region_type", "date"} THEN "mean"
  ELSE ""

RECURSIVE GCD(_, _)
GCD(a, b) == IF b = 0 THEN a ELSE GCD(b, a % b)

\* a float as the fraction <<numerator, denominator>> in lowest terms; the
\* nan of an empty mean is <<0, 0>>
Fraction(num, den) ==
  IF den = 0 THEN <<0, 0>> ELSE <<num \div GCD(num, den), den \div GCD(num, den)>>

\* Series.mean(): skipna=True is the default
Mean(cells) ==
  LET present == SelectSeq(cells, LAMBDA v : v # NaN) IN
  Fraction(Sum(present), Len(present))

\* a sum that is taken for every metric
AggregateAllSums(how, cells) ==
  CASE how = "count" -> Len(cells)
    [] how = "max" -> MaxOf({cells[i] : i \in 1 .. Len(cells)})
    [] how = "sum" -> Fraction(Sum(cells), 1)
    [] how = "mean" -> Fraction(Sum(cells), 1)

\* one column of one group under 'count', 'max', 'sum' or 'mean'; an empty
\* cell adds nothing to a sum (NaN is 0 here as well)
Aggregate(how, cells) ==
  CASE how = "count" -> Len(cells)
    [] how = "max" -> MaxOf({cells[i] : i \in 1 .. Len(cells)})
    [] how = "sum" -> Fraction(Sum(cells), 1)
    [] how = "mean" -> Mean(cells)

\* df_city_latest[df_city_latest['region_type'] == 'msa']
FilterMsa(rows) == SelectSeq(rows, LAMBDA r : r["region_type"] = "msa")

\* create_state_aggregated_table
CreateStateAggregatedTable(df) ==
  LET df_msa == FilterMsa(df.rows)
      agg_cols == SelectSeq(df.columns, LAMBDA c : AggOf(c) # "")
      keys == GroupKeys(df_msa, <<"state_name">>)
      renamed(c) == IF c = "region_name" THEN "city_count" ELSE c
  IN  [columns |-> <<"state_name">> \o [j \in 1 .. Len(agg_cols) |-> renamed(agg_cols[j])],
       rows |-> [g \in 1 .. Len(keys) |->
                   LET in == Members(df_msa, <<"state_name">>, keys[g]) IN
                   [c \in {"state_name"} \cup {renamed(agg_cols[j]) : j \in 1 .. Len(agg_cols)} |->
                      IF c = "state_name" THEN keys[g][1]
                      ELSE LET col == IF c = "city_count" THEN "region_name" ELSE c IN
                           Aggregate(AggOf(col), [i \in 1 .. Len(in) |-> in[i][col]])]]]

\* SpecAgg starts main() where process_all has returned facts: at most
\* MaxFacts of them, each of another region, metric and date, at least one
\* of a region with a state.
InitAgg ==
  /\ InitProgram
  /\ src = "reddit"
  /\ upstream = [k \in Keys |-> {}]
  /\ limiter = NewLimiter
  /\ cycle = NoCycle
  /\ fn = "preprocess_zillow.main"
  /\ text = <<>>
  /\ result = Nothing
  /\ returned = FALSE
  /\ us_states = FallbackStates
  /\ city_to_state = {}
  /\ filename = ""
  /\ raw_dir = <<>>
  /\ unit = 0
  /\ all_data = <<>>
  /\ processed = NoOutput
  /\ log = <<>>
  /\ error = "none"
  /\ ExcelIdle
  /\ \E n \in 1 .. MaxFacts :
     \E q \in [1 .. n -> 1 .. NumFactKeys], v \in [1 .. n -> CellValues] :
       /\ \A i, j \in 1 .. n : i < j => q[i] < q[j]
       /\ \E i \in 1 .. n : Fact(q[i], v[i]).state_name # NoState
       /\ df_long = [columns |-> FactColumns,
                     rows |-> [i \in 1 .. n |-> Fact(q[i], v[i])]]
  /\ df_city_latest = NoFrame
  /\ df_state_agg = NoFrame

AggFrame ==
  /\ UNCHANGED <<fn, text, result, returned, us_states, city_to_state, limiter, cycle>>
  /\ UNCHANGED <<filename, raw_dir, unit, all_data, processed, log, error, excelVars>>
  /\ UNCHANGED <<src, now, upstream, raw, meta, pc, idx, incremental, after_ts,
                 before_ts, current_after, all_posts, retry_count, attempts,
                 sleeps, exhausted, attempted, outcome, old, raised>>

\* main: df_city_latest = preprocessor.create_city_latest_table(df_long)
CreateCityLatest ==
  /\ fn = "preprocess_zillow.main"
  /\ df_city_latest = NoFrame
  /\ df_city_latest' = CreateCityLatestTable(df_long)
  /\ UNCHANGED <<df_long, df_state_agg>>
  /\ AggFrame

\* main: df_state_agg = preprocessor.create_state_aggregated_table(df_city_latest)
CreateStateAggregated ==
  /\ fn = "preprocess_zillow.main"
  /\ df_city_latest # NoFrame
  /\ df_state_agg = NoFrame
  /\ df_state_agg' = CreateStateAggregatedTable(df_city_latest)
  /\ UNCHANGED <<df_long, df_city_latest>>
  /\ AggFrame

NextAgg == CreateCityLatest \/ CreateStateAggregated

SpecAgg == InitAgg /\ [][NextAgg]_vars

\* ------------------------------------------------- a restart of the process
\* SpecCrash runs the Reddit fetcher as Spec does and lets the process die at
\* any point of a run, between the two writes of save_posts too.  The next
\* process starts from main(): a new RedditFetcher, nothing in memory, the
\* files of raw_dir as the dead process left them.  A write of one file is
\* one step.  The source gains posts between runs; a post keeps its content
\* (the checkpoint and the ids do not depend on it).
Restart ==
  /\ src = "reddit"
  /\ pc # "idle"
  /\ pc' = "idle"
  /\ idx' = 0
  /\ incremental' = TRUE
  /\ after_ts' = None
  /\ before_ts' = None
  /\ current_after' = None
  /\ all_posts' = <<>>
  /\ retry_count' = 0
  /\ attempts' = 0
  /\ sleeps' = <<>>
  /\ exhausted' = FALSE
  /\ attempted' = <<>>
  /\ outcome' = "none"
  /\ old' = NoOld
  /\ raised' = FALSE
  /\ UNCHANGED envVars
  /\ UNCHANGED fileVars

InitCrash ==
  /\ Init
  /\ src = "reddit"

NextCrash ==
  \/ Keep(AddItem)
  \/ Keep(Tick)
  \/ Keep(StartRun)
  \/ Keep(FinishRun)
  \/ Keep(RedditBegin)
  \/ Keep(RedditPageOK)
  \/ Keep(RedditPageFail)
  \/ Keep(RedditSavePosts)
  \/ Keep(RedditSaveMeta)
  \/ Keep(Restart)

SpecCrash == InitCrash /\ [][NextCrash]_vars

\* ---------------------------------------- FREDFetcher.update_excel_and_upload
\* SpecExcel runs update_excel_and_upload from the return of its fetch_all to
\* the save of the workbook.  raw_dir holds the observations file of each
\* series; a sheet is its header row and the rows below it; a date cell holds
\* a datetime (seconds since the epoch), a value cell a number, Empty nothing.
MaxObs == 2    \* observations in one file, and the dates they may carry

Empty == None

\* FRED_SERIES: the ids in order, and the sheet of each
FRED_SERIES_IDS ==
  <<"MORTGAGE30US", "CPIAUCSL", "RHORUSQ156N", "HPIPONM226S_PCH", "GDPC1CTM">>

FRED_SERIES_SHEET ==
  <<"Weekly, Ending Thursday", "Monthly", "Quarterly", "Monthly", "Annual">>

SheetNames == {FRED_SERIES_SHEET[k] : k \in 1 .. NumSeries}

\* the dates an observation may carry, as <<year, month, day>>
ObsDateNames == <<<<2024, 1, 1>>, <<2024, 2, 1>>, <<2024, 3, 1>>, <<2024, 4, 1>>>>

ObsDates == {ObsDateNames[i] : i \in 1 .. MaxObs}

\* pd.to_datetime of a 'YYYY-MM-DD' string: midnight of that day, in seconds
ObsDatetime(name) == ToDatetime(name) * SecondsPerDay

\* .date() of a datetime
DateOf(ts) == ts \div SecondsPerDay

Observation(d, v) == [date |-> d, value |-> v]

\* df = df[df['value'] != '.']
RemoveMissing(observations) == SelectSeq(observations, LAMBDA o : o.value # Missing)

\* for col_idx, cell in enumerate(ws[1], start=1): the first column headed
\* by the series id, or None
SeriesCol(header, series_id) ==
  IF \E c \in 1 .. Len(header) : header[c] = series_id
  THEN CHOOSE c \in 1 .. Len(header) :
         /\ header[c] = series_id
         /\ \A b \in 1 .. c - 1 : header[b] # series_id
  ELSE None

\* the dates of column 1 in the rows 2 .. max_row
ExistingDates(ws) ==
  {DateOf(ws.rows[r][1]) : r \in {q \in 1 .. Len(ws.rows) : ws.rows[q][1] # Empty}}

\* the row written at max_row + 1: the date in column 1, the value in series_col
NewRow(ws, series_col, o) ==
  [c \in 1 .. Len(ws.header) |->
     IF c = series_col THEN o.value
     ELSE IF c = 1 THEN ObsDatetime(o.date)
     ELSE Empty]

\* for _, row in df.iterrows(): append the observations whose date is not in
\* existing_dates (the set is built once, before the loop)
RECURSIVE AddObservations(_, _, _, _)
AddObservations(ws, series_col, existing_dates, df) ==
  IF df = <<>> THEN ws
  ELSE LET o == Head(df) IN
       IF DateOf(ObsDatetime(o.date)) \notin existing_dates
       THEN AddObservations([ws EXCEPT !.rows = Append(@, NewRow(ws, series_col, o))],
                            series_col, existing_dates, Tail(df))
       ELSE AddObservations(ws, series_col, existing_dates, Tail(df))

\* one pass of the loop over FRED_SERIES on workbook book
UpdateSeries(book, k, observations) ==
  LET ws == book[FRED_SERIES_SHEET[k]]
      series_col == SeriesCol(ws.header, FRED_SERIES_IDS[k])
  IN  [book EXCEPT ![FRED_SERIES_SHEET[k]] =
         AddObservations(ws, series_col, ExistingDates(ws), RemoveMissing(observations))]

\* the inputs: the observation files
ObservationLists ==
  UNION {{q \in [1 .. n -> [date : ObsDates, value : {Missing, 1, 2}]] :
            \A i, j \in 1 .. n :
              i < j => ToDatetime(q[i].date) < ToDatetime(q[j].date)} :
         n \in 0 .. MaxObs}

\* the header row of a sheet: observation_date, then the series of the sheet,
\* but for the one whose column the workbook lacks
HeaderOf(sheet_name, lacks) ==
  <<"observation_date">> \o
  SelectSeq(FRED_SERIES_IDS,
            LAMBDA id : /\ id # lacks
                        /\ \E k \in 1 .. NumSeries :
                             FRED_SERIES_IDS[k] = id /\ FRED_SERIES_SHEET[k] = sheet_name)

\* the rows the Monthly sheet may hold before the update
OldRowsOf(header) ==
  {<<>>} \cup
  {<<[c \in 1 .. Len(header) |-> IF c = 1 THEN ObsDatetime(ObsDateNames[1]) ELSE v]>> : v \in {Empty, 2}}

ExcelFrame ==
  /\ UNCHANGED <<fn, text, result, us_states, city_to_state, filename, raw_dir,
                 all_data, processed, error, limiter, cycle, aggVars>>
  /\ UNCHANGED <<src, now, upstream, raw, meta, pc, idx, incremental, after_ts,
                 before_ts, current_after, all_posts, retry_count, attempts,
                 sleeps, exhausted, attempted, outcome, old, raised>>

InitExcel ==
  /\ InitProgram
  /\ src = "fred"
  /\ upstream = [k \in Keys |-> {}]
  /\ limiter = NewLimiter
  /\ cycle = NoCycle
  /\ fn = "FREDFetcher.update_excel_and_upload"
  /\ text = <<>>
  /\ result = Nothing
  /\ returned = FALSE
  /\ us_states = FallbackStates
  /\ city_to_state = {}
  /\ filename = ""
  /\ unit = 0
  /\ all_data = <<>>
  /\ processed = NoOutput
  /\ log = <<>>
  /\ error = "none"
  /\ AggIdle
  /\ wb = <<>>
  /\ \E cpi, hpi \in {NoInput} \cup {Input(q) : q \in ObservationLists},
        rest \in {NoInput, Input(<<Observation(ObsDateNames[1], 1)>>)} :
       raw_dir = [id \in {FRED_SERIES_IDS[k] : k \in 1 .. NumSeries} |->
                    IF id = "CPIAUCSL" THEN cpi
                    ELSE IF id = "HPIPONM226S_PCH" THEN hpi
                    ELSE rest]
  /\ \/ excel_file = [exists |-> FALSE, sheets |-> <<>>]
     \/ \E absent \in {"", "Monthly", "Annual"},
           lacks \in {"", "HPIPONM226S_PCH", "MORTGAGE30US"} :
        \E old_rows \in OldRowsOf(HeaderOf("Monthly", lacks)) :
          excel_file =
            [exists |-> TRUE,
             sheets |-> [s \in SheetNames \ {absent} |->
                           [header |-> HeaderOf(s, lacks),
                            rows |-> IF s = "Monthly" THEN old_rows ELSE <<>>]]]

\* if not excel_path.exists(): return;  wb = load_workbook(excel_path)
ExcelLoad ==
  /\ fn = "FREDFetcher.update_excel_and_upload"
  /\ ~returned
  /\ wb = <<>>
  /\ IF ~excel_file.exists
     THEN /\ log' = Append(log, [level |-> "ERROR", unit |-> ""])
          /\ returned' = TRUE
          /\ UNCHANGED wb
     ELSE /\ wb' = excel_file.sheets
          /\ UNCHANGED <<log, returned>>
  /\ UNCHANGED <<unit, excel_file>>
  /\ ExcelFrame

\* one pass of the loop over FRED_SERIES
ExcelSeries ==
  /\ fn = "FREDFetcher.update_excel_and_upload"
  /\ ~returned
  /\ wb # <<>>
  /\ unit < NumSeries
  /\ LET k == unit + 1
         id == FRED_SERIES_IDS[k]
     IN  IF \/ ~raw_dir[id].exists
            \/ FRED_SERIES_SHEET[k] \notin DOMAIN wb
            \/ SeriesCol(wb[FRED_SERIES_SHEET[k]].header, id) = None
         THEN /\ log' = Append(log, [level |-> "WARNING", unit |-> id])
              /\ UNCHANGED wb
         ELSE /\ wb' = UpdateSeries(wb, k, raw_dir[id].df)
              /\ UNCHANGED log
  /\ unit' = unit + 1
  /\ UNCHANGED <<returned, excel_file>>
  /\ ExcelFrame

\* wb.save(excel_path); the scripts run afterwards leave the workbook alone
ExcelSave ==
  /\ fn = "FREDFetcher.update_excel_and_upload"
  /\ ~returned
  /\ wb # <<>>
  /\ unit = NumSeries
  /\ excel_file' = [exists |-> TRUE, sheets |-> wb]
  /\ returned' = TRUE
  /\ UNCHANGED <<wb, unit, log>>
  /\ ExcelFrame

NextExcel == ExcelLoad \/ ExcelSeries \/ ExcelSave

SpecExcel == InitExcel /\ [][NextExcel]_vars

\* ------------------------------------------------------------ the claims
Items(k) == raw[k].items

OldItems == old.file.items

Has(list, x) == \E i \in 1 .. Len(list) : list[i] = x

\* save_posts has written the posts file of key idx
RedditMerged ==
  /\ src = "reddit"
  /\ pc = "save_meta" \/ (pc = "loop" /\ outcome = "saved")

\* fetch_series has merged the fetched observations into the file of key idx
FredMerged ==
  /\ src = "fred"
  /\ pc \in {"loop", "aborted"}
  /\ outcome \in {"saved", "save_error"}
  /\ incremental /\ after_ts # None /\ old.file.exists

\* save_term_data has merged the fetched rows into the file of key idx
TrendsMerged ==
  /\ src = "trends"
  /\ pc = "loop" /\ outcome = "saved"
  /\ old.file.exists

\* the fetch of key idx brought an item whose key was persisted with another payload
Refetched ==
  \E i \in 1 .. Len(all_posts), j \in 1 .. Len(OldItems) :
    all_posts[i].id = OldItems[j].id /\ all_posts[i].v # OldItems[j].v

\* C1: when save_posts or the merge path of fetch_series has merged, every
\* natural key that was persisted before is still there with the item it
\* had, whatever the fetch brought for that key (first seen wins).
FirstSeenWins ==
  (RedditMerged \/ FredMerged) =>
    \A i \in 1 .. Len(OldItems) :
      /\ Has(Items(idx), OldItems[i])
      /\ \A j \in 1 .. Len(Items(idx)) :
           Items(idx)[j].id = OldItems[i].id => Items(idx)[j] = OldItems[i]

FirstSeenWinsWitness == FredMerged /\ Refetched

\* C2: the raw file of a key never holds two items with the same natural key.
NaturalKeysUnique ==
  \A k \in Keys : \A i, j \in 1 .. Len(Items(k)) :
    i # j => Items(k)[i].id # Items(k)[j].id

NaturalKeysUniqueWitness ==
  /\ RedditMerged
  /\ Len(Items(idx)) >= 2
  /\ \E i \in 1 .. Len(all_posts) : all_posts[i].id \in Ids(OldItems)

FredCheckpointAfterFetch ==
  (src = "fred" /\ outcome \in {"saved", "save_error"}) =>
    LET dates == {Items(idx)[i].ts : i \in {j \in 1 .. Len(Items(idx)) :
                                              Items(idx)[j].v # Missing}}
    IN  IF dates = {} THEN meta[idx] = None
        ELSE meta[idx] \in dates /\ \A d \in dates : d <= meta[idx]

\* C5: after a Reddit or Trends fetch has saved, the checkpoint of its key is
\* the greatest timestamp in the key's raw file; and no step lowers the
\* checkpoint of a key.
CheckpointIsMaxAndGrows ==
  /\ [](((src \in {"reddit", "trends"}) /\ pc = "loop" /\ outcome = "saved") =>
          /\ \E i \in 1 .. Len(Items(idx)) : Items(idx)[i].ts = meta[idx]
          /\ \A i \in 1 .. Len(Items(idx)) : Items(idx)[i].ts <= meta[idx])
  /\ [][(src \in {"reddit", "trends"}) =>
          \A k \in Keys : meta'[k] >= meta[k]]_vars

CheckpointIsMaxAndGrowsWitness ==
  /\ src = "reddit"
  /\ pc = "loop" /\ outcome = "saved"
  /\ old.meta # None /\ meta[idx] > old.meta
  /\ \E i \in 1 .. Len(Items(idx)) : Items(idx)[i].ts < meta[idx]

\* C6 as claimed: a step changes the checkpoint of a key only in a fetch of
\* that key in which no request failed for good.
CheckpointOnlyAfterFullSuccess ==
  [][\A k \in Keys : meta'[k] # meta[k] => (k = idx /\ ~exhausted)]_vars

\* C6 as amended: a step changes the checkpoint of a key only in a fetch of
\* that key that retrieved an item, and after a failed request only in
\* Reddit's; a Reddit fetch that retrieved pages before a request failed for
\* good saves them, and the checkpoint is then at or above every retrieved
\* created_utc.
CheckpointOnlyAfterItems ==
  /\ [][\A k \in Keys : meta'[k] # meta[k] =>
          /\ k = idx
          /\ all_posts # <<>>
          /\ exhausted => src = "reddit"]_vars
  /\ []((src = "reddit" /\ pc = "loop" /\ exhausted) =>
          IF all_posts = <<>>
          THEN outcome = "request_failed" /\ meta[idx] = old.meta
          ELSE /\ outcome = "saved"
               /\ \A i \in 1 .. Len(all_posts) : all_posts[i].ts <= meta[idx])

CheckpointOnlyAfterItemsWitness ==
  /\ src = "reddit"
  /\ pc = "loop" /\ outcome = "saved"
  /\ exhausted
  /\ meta[idx] # old.meta

\* the fetch of key idx has computed the start of its window
WindowSet == pc \in {"page", "obs", "save_posts", "save_term", "save_series"}

\* C7: an incremental fetch of a key whose checkpoint is w asks for the items
\* from w plus one unit on (one second for Reddit, one day for FRED and
\* Trends) and retrieves nothing at or before w; without a checkpoint it asks
\* from the default start: the last 30 days (Reddit), the last 90 days
\* (Trends), everything (FRED).
IncrementalWindowStart ==
  (WindowSet /\ incremental) =>
    IF old.meta # None
    THEN /\ after_ts = old.meta + 1
         /\ \A i \in 1 .. Len(all_posts) : all_posts[i].ts > old.meta
    ELSE /\ src = "reddit" => after_ts = before_ts - 30 * 86400
         /\ src = "trends" => after_ts = before_ts - 90
         /\ src = "fred" => after_ts = None

IncrementalWindowStartWitness ==
  /\ src = "reddit"
  /\ pc = "save_posts"
  /\ incremental
  /\ old.meta # None
  /\ \E i \in 1 .. Len(all_posts) : all_posts[i].ts = old.meta + 1

\* C8: fetch_all attempts the keys one by one in configuration order, each
\* once; it returns only after the last key; the failure of a key never
\* aborts it; and a run that has started returns.
FetchAllAttemptsEveryKey ==
  /\ [](pc # "aborted")
  /\ [](attempted = [i \in 1 .. idx |-> i])
  /\ [][(pc = "loop" /\ pc' = "idle") => attempted = [i \in 1 .. NumKeys(src) |-> i]]_vars
  /\ (pc = "loop") ~> (pc = "idle")

FetchAllAttemptsEveryKeyWitness ==
  /\ raised
  /\ pc = "loop"
  /\ idx = NumKeys(src)
  /\ outcome = "saved"

\* C9: a Reddit request and a Trends fetch_term are retried at most MAX_RETRIES
\* (3) times; the wait before retry k (from 0) is BACKOFF_FACTOR^k, that is
\* 1, 2, 4 seconds for Reddit and 1, 3, 9 for Trends; after the fourth failed
\* attempt the error is raised and no further request is made for the key.
RetryBounded ==
  (src \in {"reddit", "trends"}) =>
    /\ retry_count <= 3
    /\ attempts <= 4
    /\ pc \in {"page", "term"} => (attempts = retry_count /\ ~exhausted)
    /\ sleeps = [k \in 1 .. Len(sleeps) |-> IF src = "reddit"
                                            THEN <<1, 2, 4>>[k]
                                            ELSE <<1, 3, 9>>[k]]
    /\ Len(sleeps) = IF attempts = 4 THEN 3 ELSE attempts
    /\ exhausted <=> attempts = 4

RetryBoundedWitness ==
  /\ src = "trends"
  /\ exhausted
  /\ attempts = 4
  /\ sleeps = <<1, 3, 9>>
  /\ raised

RateLimitRespected ==
  /\ limiter.requests = 1 => limiter.slept = 0
  /\ limiter.requests = 2 =>
       /\ src = "reddit" => limiter.gap >= 2
       /\ src = "fred" => limiter.gap >= 1
       /\ src = "trends" => limiter.gap >= 4

RateLimitRespectedWitness ==
  /\ src = "trends"
  /\ pc = "term"
  /\ retry_count = 2
  /\ limiter.requests = 2
  /\ limiter.slept > 0
  /\ limiter.gap = 4

\* C12: in an incremental run of fetch_all that follows an incremental run
\* in which no request was given up, with the source and the clock as they
\* were, no step changes a raw file or a checkpoint: after the second cycle
\* both are what they were after the first.
SecondCycleChangesNothing ==
  [][(cycle.done /\ pc # "idle" /\ incremental) =>
       (raw' = raw /\ meta' = meta)]_vars

SecondCycleChangesNothingWitness ==
  /\ cycle.done
  /\ incremental
  /\ src \in {"reddit", "trends"}
  /\ pc = "loop"
  /\ idx >= 1
  /\ outcome = "no_data"
  /\ Len(raw[idx].items) >= 2
  /\ meta[idx] # None

\* the save of key idx has written the raw file
Saved ==
  \/ RedditMerged
  \/ src = "trends" /\ pc = "loop" /\ outcome = "saved"
  \/ src = "fred" /\ pc \in {"loop", "aborted"} /\ outcome \in {"saved", "save_error"}

\* every natural key persisted before the fetch is in the file after it
KeysKept == Ids(OldItems) \subseteq Ids(Items(idx))

Price == result[1]

\* C14 as claimed: a price that extract_price returns, from the K/M pattern
\* or from the full-number pattern, is between 50000 and 50000000.
PriceInRange ==
  (fn = "extract_price" /\ returned /\ result # Nothing) => Reasonable(Price)

\* text[g1 .. g2] is digits, or digits, a point and digits
IsAmount(t, g1, g2) ==
  \E c \in g1 .. g2 :
    /\ \A m \in g1 .. c : IsDigit(t[m])
    /\ \/ c = g2
       \/ /\ c + 2 <= g2
          /\ t[c + 1] = DOT
          /\ \A m \in c + 2 .. g2 : IsDigit(t[m])

\* an occurrence of the K/M format in t: it begins at p, its amount is
\* t[g1 .. g2], its suffix is t[z]
KMOccurrence(t, p, g1, g2, z) ==
  /\ t[z] \in {UpperK, LowerK, UpperM, LowerM}
  /\ \A m \in g2 + 1 .. z - 1 : IsSpace(t[m])
  /\ IsDigit(t[g2]) /\ IsDigit(t[g1])
  /\ \E a \in {p, p + 1} :
       /\ a = p + 1 => t[p] = DOLLAR
       /\ a <= g1
       /\ \A m \in a .. g1 - 1 : IsSpace(t[m])
  /\ IsAmount(t, g1, g2)

KMStarts(t) ==
  {p \in 1 .. Len(t) :
     \E z \in p + 1 .. Len(t) : \E g2 \in p .. z - 1 : \E g1 \in p .. g2 :
       KMOccurrence(t, p, g1, g2, z)}

\* C15: when the text holds an occurrence of the K/M format, extract_price
\* returns the amount of the occurrence that begins first, times 1000 when
\* its suffix is K or k and times 1000000 when it is M or m, whether or not
\* the text also holds a full-number price.
PriceFromLeftmostKM ==
  (fn = "extract_price" /\ returned) =>
    LET starts == KMStarts(text) IN
    \A p \in starts :
      (\A m \in starts : p <= m) =>
        \A z \in p + 1 .. Len(text) : \A g2 \in p .. z - 1 : \A g1 \in p .. g2 :
          KMOccurrence(text, p, g1, g2, z) =>
            result = Some(TimesPowerOfTen(Float(SubSeq(text, g1, g2)),
                                          IF text[z] \in {UpperK, LowerK}
                                          THEN 3 ELSE 6))

PriceFromLeftmostKMWitness ==
  /\ fn = "extract_price"
  /\ returned
  /\ KMStarts(text) # {}
  /\ Search(MatchFull, text).ok
  /\ Reasonable(Float(RemoveCommas(Search(MatchFull, text).group1)))
  /\ result # Some(Float(RemoveCommas(Search(MatchFull, text).group1)))
  /\ Reasonable(Price)

\* the positions of text where a 'City, ST' with a known ST begins
KnownCityStates ==
  {p \in 1 .. Len(text) :
     MatchCityState(text, p).ok /\ MatchCityState(text, p).group2 \in us_states}

\* C16 as claimed: when the text holds a 'City, ST' whose ST is a known
\* state, extract_location returns the first of them as 'City, ST'; and it
\* never returns a 'City, ST' of the text whose ST is not a known state.
LocationIsFirstKnown ==
  (fn = "extract_location" /\ returned) =>
    /\ \A p \in KnownCityStates :
         (\A m \in KnownCityStates : p <= m) =>
           result = Some(CityState(MatchCityState(text, p).group1,
                                   MatchCityState(text, p).group2))
    /\ \A p \in 1 .. Len(text) :
         (MatchCityState(text, p).ok /\ MatchCityState(text, p).group2 \notin us_states) =>
           result # Some(CityState(MatchCityState(text, p).group1,
                                   MatchCityState(text, p).group2))

\* the string normalize_text returned
Normalized == result[1]

\* C17: every character of the string normalize_text returns has a code
\* point below 128 and is a newline, a tab or at 32 or above; and
\* normalize_text of that string is that string.
NormalizedIsCleanAndStable ==
  (fn = "normalize_text" /\ returned) =>
    /\ \A i \in 1 .. Len(Normalized) :
         /\ Normalized[i] < 128
         /\ Normalized[i] \in {10, 9} \/ Normalized[i] >= 32
    /\ NormalizeText(Normalized) = Normalized

NormalizedIsCleanAndStableWitness ==
  /\ fn = "normalize_text"
  /\ returned
  /\ text = <<CR, EmDash, GrinningFace>>
  /\ Normalized = <<Hyphen, Hyphen>>

\* the table process_file read, and the rows it returned
Wide == raw_dir[filename].df

Long == result[1]

\* the rows of region r at the date of column name d
FactRows(r, d) ==
  {k \in 1 .. Len(Long) : Long[k].region_id = r /\ Long[k].date = ToDatetime(d)}

\* C18: of a wide table whose RegionIDs differ, process_file returns one
\* row for each cell that is not empty, with the region, the date and the
\* value of the cell, and no row for an empty cell: the rows pivoted back to
\* region by date give every cell that is not empty, with its value.
LongMatchesWide ==
  (/\ fn = "process_file" /\ returned
   /\ \A i, j \in 1 .. Len(Wide.RegionID) : i # j => Wide.RegionID[i] # Wide.RegionID[j]) =>
    /\ \A i \in 1 .. Len(Wide.RegionID) : \A j \in 1 .. Len(Wide.date_cols) :
         LET rows == FactRows(Wide.RegionID[i], Wide.date_cols[j]) IN
         IF Wide.cell[i][j] = NaN
         THEN rows = {}
         ELSE /\ Cardinality(rows) = 1
              /\ \A k \in rows : Long[k].value = Wide.cell[i][j]
    /\ \A k \in 1 .. Len(Long) :
         /\ Long[k].metric_type = MetricType(filename)
         /\ \E i \in 1 .. Len(Wide.RegionID) : \E j \in 1 .. Len(Wide.date_cols) :
              k \in FactRows(Wide.RegionID[i], Wide.date_cols[j])

LongMatchesWideWitness ==
  /\ fn = "process_file" /\ returned
  /\ Wide.RegionID = <<2, 1>>
  /\ Len(Wide.date_cols) = 2
  /\ Wide.cell = <<<<1, NaN>>, <<NaN, 2>>>>
  /\ Len(Long) = 2

\* a process_all is called; it has returned or raised
Batch ==
  fn \in {"ZillowPreprocessor.process_all", "RedditPreprocessor.process_all",
          "TrendsPreprocessor.process_all"}

Absent(k) == ~raw_dir[Units(fn)[k]].exists

Logged(level, k) == \E i \in 1 .. Len(log) : log[i] = [level |-> level, unit |-> Units(fn)[k]]

\* the combined output holds what unit k has to give
InOutput(k) ==
  IF fn = "RedditPreprocessor.process_all"
  THEN \A i \in 1 .. Len(raw_dir[SUBREDDITS[k]].df) :
         LET post == raw_dir[SUBREDDITS[k]].df[i] IN
         ~post.removed =>
           \E j \in 1 .. Len(processed.rows) :
             /\ processed.rows[j].post_id = post.id
             /\ processed.rows[j].subreddit = SUBREDDITS[k]
  ELSE IF fn = "TrendsPreprocessor.process_all"
  THEN (raw_dir[TERM_KEYS[k]].metadata /\ raw_dir[TERM_KEYS[k]].df # <<>>) =>
         \A i \in 1 .. Len(raw_dir[TERM_KEYS[k]].df) :
           \E j \in 1 .. Len(processed.rows) :
             /\ processed.rows[j].search_term = TERM_KEYS[k]
             /\ processed.rows[j].week_start_date = WeekLabel(raw_dir[TERM_KEYS[k]].df[i].date)
  ELSE \A i \in 1 .. Len(ProcessFile(raw_dir, Units(fn)[k]).rows) :
         \E j \in 1 .. Len(processed.rows) :
           processed.rows[j] = ProcessFile(raw_dir, Units(fn)[k]).rows[i]

\* C19 as claimed: in the three preprocessors, a unit whose raw file is not
\* there is skipped with a warning, no error comes of it, and when
\* process_all returns the other units are in the output.
AbsentUnitIsSkipped ==
  Batch =>
    /\ \A k \in 1 .. unit : Absent(k) =>
         Logged("WARNING", k) /\ error # "FileNotFoundError"
    /\ (returned /\ processed.exists) =>
         \A k \in 1 .. Len(Units(fn)) : ~Absent(k) => InOutput(k)

\* C19 as amended: RedditPreprocessor and TrendsPreprocessor skip a unit
\* whose raw file is not there with a warning, no error comes of it, and
\* the units that are there are processed and written to the output;
\* ZillowPreprocessor.process_all logs an error for the first metric CSV
\* that is not there and raises FileNotFoundError: the metrics after it are
\* not processed and no combined output is written.
AbsentUnitIsSkippedButZillowAborts ==
  Batch =>
    IF fn = "ZillowPreprocessor.process_all"
    THEN \A k \in 1 .. unit : Absent(k) =>
           /\ unit = k
           /\ error = "FileNotFoundError"
           /\ Logged("ERROR", k) /\ ~Logged("WARNING", k)
           /\ ~returned
           /\ ~processed.exists
    ELSE /\ \A k \in 1 .. unit : Absent(k) =>
              Logged("WARNING", k) /\ ~Logged("ERROR", k)
         /\ error # "FileNotFoundError"
         /\ error # "none" =>
              IF fn = "RedditPreprocessor.process_all"
              THEN ~Absent(unit)
              ELSE \E k \in 1 .. unit : ~Absent(k) /\ Len(raw_dir[Units(fn)[k]].df) > 1
         /\ returned =>
              /\ unit = Len(Units(fn))
              /\ \A k \in 1 .. Len(Units(fn)) : ~Absent(k) => InOutput(k)
              /\ processed.exists <=>
                   \E k \in 1 .. Len(Units(fn)) :
                     /\ ~Absent(k)
                     /\ raw_dir[Units(fn)[k]].df # <<>>
                     /\ fn = "TrendsPreprocessor.process_all" => raw_dir[Units(fn)[k]].metadata

AbsentUnitIsSkippedButZillowAbortsWitness ==
  /\ fn = "RedditPreprocessor.process_all"
  /\ returned
  /\ Absent(1) /\ ~Absent(2)
  /\ Logged("WARNING", 1)
  /\ processed.exists
  /\ Len(processed.rows) = 2

\* C20: process_file called with a name that is not in METRIC_MAPPING
\* raises and returns no rows; and when a process_file raises within
\* ZillowPreprocessor.process_all, process_all raises that error at once:
\* it goes on to no other file and writes no combined output.
UnknownFileAndFileErrorsAreFatal ==
  /\ []((fn = "process_file" /\ MetricType(filename) = "") =>
          ~returned /\ result = Nothing)
  /\ [][(fn = "process_file" /\ MetricType(filename) = "") =>
          error' \in {"ValueError", "FileNotFoundError"}]_vars
  /\ [](fn = "ZillowPreprocessor.process_all" =>
          \A k \in 1 .. unit :
            ProcessFile(raw_dir, Units(fn)[k]).error # "none" =>
              /\ error = ProcessFile(raw_dir, Units(fn)[k]).error
              /\ unit = k
              /\ ~returned
              /\ ~processed.exists)
  /\ [][(fn = "ZillowPreprocessor.process_all" /\ error # "none") => UNCHANGED vars]_vars

UnknownFileAndFileErrorsAreFatalWitness ==
  /\ fn = "ZillowPreprocessor.process_all"
  /\ error = "IndexError"
  /\ unit = 3
  /\ Len(all_data) = 2
  /\ ~processed.exists

\* the region of a fact or of a row of the city latest table
RegionOf(r) == <<r["region_name"], r["state_name"], r["region_type"]>>

\* the regions that occur in the facts
FactRegions == {RegionOf(df_long.rows[i]) : i \in 1 .. Len(df_long.rows)}

\* the rows of the city latest table for a region
CityRowsOf(g) ==
  SelectSeq(df_city_latest.rows, LAMBDA r : RegionOf(r) = g)

\* the value of the fact with the greatest date among the facts of a region
\* for a metric
LatestValue(g, metric) ==
  LET in == {i \in 1 .. Len(df_long.rows) :
               /\ RegionOf(df_long.rows[i]) = g
               /\ df_long.rows[i].metric_type = metric}
  IN  df_long.rows[CHOOSE i \in in :
                     \A j \in in : df_long.rows[j].date <= df_long.rows[i].date].value

\* C21: the table create_city_latest_table returns has exactly one row for
\* every (region_name, state_name, region_type) that occurs in the facts and
\* no other row, and for every metric a region has facts for, the metric's
\* column of the region's row holds the value of the fact with the greatest
\* date among them.
CityLatestHasOneRowPerRegion ==
  df_city_latest # NoFrame =>
    /\ \A g \in FactRegions : Len(CityRowsOf(g)) = 1
    /\ \A i \in 1 .. Len(df_city_latest.rows) :
         RegionOf(df_city_latest.rows[i]) \in FactRegions
    /\ \A i \in 1 .. Len(df_long.rows) :
         LET f == df_long.rows[i]
             row == CityRowsOf(RegionOf(f))[1]
         IN  /\ f.metric_type \in DOMAIN row
             /\ row[f.metric_type] = LatestValue(RegionOf(f), f.metric_type)

\* the rows of the city latest table that create_state_aggregated_table
\* keeps for a state
CitiesOf(state) ==
  SelectSeq(df_city_latest.rows,
            LAMBDA r : r["region_type"] = "msa" /\ r["state_name"] = state)

\* the metric columns of the city latest table
MetricColumns ==
  {df_city_latest.columns[j] : j \in 1 .. Len(df_city_latest.columns)}
    \ {"region_name", "state_name", "region_type", "date"}

\* the cells of a metric in the rows of a state's cities, the empty ones left out
CellsOf(state, metric) ==
  LET in == CitiesOf(state) IN
  SelectSeq([i \in 1 .. Len(in) |-> in[i][metric]], LAMBDA v : v # NaN)

\* the rows of the state table for a state
StateRowsOf(state) ==
  SelectSeq(df_state_agg.rows, LAMBDA r : r["state_name"] = state)

\* C22: the table create_state_aggregated_table returns has one row for
\* every state_name of a row with region_type 'msa' and no other row; in
\* it city_count is the number of those rows of the state, the column of
\* active_listings, new_listings, sales_count and
\* new_construction_sales_count is the sum of the cities' values, and the
\* column of any other metric is the arithmetic mean of the cities' values:
\* their sum divided by the number of cities when every city has one, and
\* by the number of cities that have one otherwise.
StateAggregateSumsAndMeans ==
  df_state_agg # NoFrame =>
    /\ \A i \in 1 .. Len(df_city_latest.rows) :
         LET r == df_city_latest.rows[i] IN
         (r["region_type"] = "msa" /\ r["state_name"] # NoState) =>
           Len(StateRowsOf(r["state_name"])) = 1
    /\ \A i \in 1 .. Len(df_state_agg.rows) :
         LET row == df_state_agg.rows[i]
             state == row["state_name"]
         IN  /\ CitiesOf(state) # <<>>
             /\ row["city_count"] = Len(CitiesOf(state))
             /\ \A m \in MetricColumns :
                  /\ m \in DOMAIN row
                  /\ m \in SUM_METRICS => row[m] = <<Sum(CellsOf(state, m)), 1>>
                  /\ (m \notin SUM_METRICS /\ CellsOf(state, m) # <<>>) =>
                       /\ row[m][2] > 0
                       /\ row[m][1] * Len(CellsOf(state, m)) = Sum(CellsOf(state, m)) * row[m][2]
                  /\ (m \notin SUM_METRICS /\ Len(CellsOf(state, m)) = Len(CitiesOf(state))) =>
                       row[m][1] * row["city_count"] = Sum(CellsOf(state, m)) * row[m][2]

\* two cities of Texas with zhvi 1 and 2, one with an active listing
StateAggregateSumsAndMeansWitness ==
  /\ df_state_agg # NoFrame
  /\ \E i \in 1 .. Len(df_state_agg.rows) :
       LET row == df_state_agg.rows[i] IN
       /\ row["state_name"] = "TX"
       /\ row["city_count"] = 2
       /\ "zhvi" \in DOMAIN row /\ row["zhvi"] = <<3, 2>>
       /\ "active_listings" \in DOMAIN row /\ row["active_listings"] = <<1, 1>>

\* C23: in the table create_state_aggregated_table returns, the mean of a
\* metric over a state counts a city that has no value for the metric as a
\* zero: it is the sum of the cities' values divided by the number of all
\* the state's cities, city_count.
MeanCountsAbsentAsZero ==
  df_state_agg # NoFrame =>
    \A i \in 1 .. Len(df_state_agg.rows) :
      LET row == df_state_agg.rows[i] IN
      \A m \in MetricColumns \ SUM_METRICS :
        /\ m \in DOMAIN row
        /\ row[m][2] > 0
        /\ row[m][1] * row["city_count"] = Sum(CellsOf(row["state_name"], m)) * row[m][2]

\* C24: every row of the state table built from the city latest table has a
\* latest-date column, and its value is the greatest of the latest dates of
\* the state's cities.
StateLatestDateIsMaxOfCities ==
  df_state_agg # NoFrame =>
    \A i \in 1 .. Len(df_state_agg.rows) :
      LET row == df_state_agg.rows[i]
          in == CitiesOf(row["state_name"])
      IN  \E c \in {"latest_date", "date"} :
            /\ c \in DOMAIN row
            /\ row[c] = MaxOf({in[j]["date"] : j \in 1 .. Len(in)})

\* the daily rows process_term returns for term k
DailyRows(k) == ProcessTerm(raw_dir, k).rows

\* the weekly rows of term k in the processed file
WeeklyRows(k) ==
  SelectSeq(processed.rows, LAMBDA r : r.search_term = TERM_KEYS[k])

\* the daily scores of term k in the seven days that start at s
BucketScores(k, s) ==
  LET in == SelectSeq(DailyRows(k), LAMBDA r : s <= r.date /\ r.date <= s + 6) IN
  [i \in 1 .. Len(in) |-> in[i].interest_score]

\* C25: in the file TrendsPreprocessor.process_all writes, every daily point
\* of a term, dated d, lies in the bucket of exactly one weekly row of the
\* term: the row's week_start_date s is a Sunday and s <= d <= s + 6; and
\* avg_interest_score of a row is the rounded mean of the daily scores of its
\* seven days, within 0 .. 100.
DailyPointInSundayWeek ==
  (fn = "TrendsPreprocessor.process_all" /\ processed.exists) =>
    \A k \in 1 .. Len(TERM_KEYS) :
      /\ \A i \in 1 .. Len(DailyRows(k)) :
           Len(SelectSeq(WeeklyRows(k),
                         LAMBDA r : /\ r.week_start_date <= DailyRows(k)[i].date
                                    /\ DailyRows(k)[i].date <= r.week_start_date + 6)) = 1
      /\ \A j \in 1 .. Len(WeeklyRows(k)) :
           LET row == WeeklyRows(k)[j]
               scores == BucketScores(k, row.week_start_date)
           IN  /\ (row.week_start_date + 4) % 7 = 0
               /\ scores # <<>>
               /\ row.avg_interest_score = RoundHalfEven(Sum(scores), Len(scores))
               /\ row.avg_interest_score \in 0 .. 100

\* C26: in fetch_subreddit a step of the pagination loop only appends a page
\* to all_posts; after a non-empty page the cursor is the greatest
\* created_utc of the page plus one, else it stays; the loop stops exactly
\* when the page is empty, or has fewer posts than the page size, or the
\* request has failed after its retries, or the cursor has reached
\* before_timestamp; when it stops with posts retrieved, save_posts comes
\* next, and the posts file it writes holds every retrieved post that has an id.
PaginationAdvancesAndStops ==
  /\ [][(src = "reddit" /\ pc = "page") =>
          LET page == SubSeq(all_posts', Len(all_posts) + 1, Len(all_posts'))
              answered == attempts' = 0
              gave_up == exhausted' /\ ~exhausted
          IN  /\ SubSeq(all_posts', 1, Len(all_posts)) = all_posts
              /\ current_after' =
                   IF page # <<>>
                   THEN MaxOf({page[i].ts : i \in 1 .. Len(page)}) + 1
                   ELSE current_after
              /\ pc' # "page" <=>
                   \/ answered /\ page = <<>>
                   \/ answered /\ Len(page) < Limit
                   \/ gave_up
                   \/ answered /\ current_after' >= before_ts
              /\ pc' # "page" =>
                   pc' = IF all_posts' # <<>> THEN "save_posts" ELSE "loop"]_vars
  /\ [][(src = "reddit" /\ pc = "save_posts") =>
          /\ pc' = "save_meta"
          /\ raw'[idx].exists
          /\ \A i \in 1 .. Len(all_posts) :
               all_posts[i].id # NoId => all_posts[i].id \in Ids(raw'[idx].items)]_vars

\* a full page and a second page have been retrieved, and the loop is left
PaginationAdvancesAndStopsWitness ==
  /\ src = "reddit"
  /\ pc = "save_posts"
  /\ Len(all_posts) > Limit
  /\ current_after = all_posts[Len(all_posts)].ts + 1

\* C27: the pagination loop of fetch_subreddit ends: while it runs the
\* cursor is below before_timestamp, every iteration that goes on to another
\* request has raised the cursor, and the loop is left in the end.
PaginationTerminates ==
  /\ []((src = "reddit" /\ pc = "page") => current_after < before_ts)
  /\ [][(src = "reddit" /\ pc = "page" /\ pc' = "page" /\ attempts' = 0) =>
          current_after' > current_after]_vars
  /\ (src = "reddit" /\ pc = "page") ~> (pc # "page")

\* a page has been retrieved and the loop goes on from a higher cursor
PaginationTerminatesWitness ==
  /\ src = "reddit"
  /\ pc = "page"
  /\ Len(all_posts) = Limit
  /\ current_after > after_ts
  /\ current_after < before_ts

\* C28: when no request of a fetch_subreddit has failed for good and
\* save_posts has written the posts file, the file holds every post the
\* source has for the subreddit with after_timestamp <= created_utc <
\* before_timestamp.
NoWindowPostSkipped ==
  (RedditMerged /\ ~exhausted) =>
    \A p \in upstream[idx] :
      (after_ts <= p.ts /\ p.ts < before_ts) => p.id \in Ids(raw[idx].items)

\* C29: at every point of a run of the Reddit fetcher, between the two writes
\* of save_posts and after a restart of the process at any point, a stored
\* checkpoint of a subreddit is at most the greatest created_utc of the posts
\* in its posts file; the posts file is written before the checkpoint (a step
\* that changes the checkpoint leaves the posts file as it is, comes after the
\* write of the posts file and stores the greatest created_utc of that file);
\* and the posts file never holds one id twice, so a fetch after a restart
\* gives a collection with unique ids.
PersistedTimes(k) == {raw[k].items[i].ts : i \in 1 .. Len(raw[k].items)}

CheckpointWithin(k) ==
  meta[k] # None =>
    /\ raw[k].exists
    /\ PersistedTimes(k) # {}
    /\ \E t \in PersistedTimes(k) : meta[k] <= t

PersistedIdsUnique(k) ==
  \A i, j \in 1 .. Len(raw[k].items) :
    i # j => raw[k].items[i].id # raw[k].items[j].id

\* the files of key idx were left by a process that died between the two writes
LeftBetweenWrites ==
  /\ old.file.exists
  /\ \E i \in 1 .. Len(old.file.items) :
       old.meta = None \/ old.meta < old.file.items[i].ts

CheckpointNeverAheadOfPosts ==
  /\ [](\A k \in Keys : CheckpointWithin(k) /\ PersistedIdsUnique(k))
  /\ [][\A k \in Keys :
          meta'[k] # meta[k] =>
            /\ raw' = raw
            /\ pc = "save_meta" /\ idx = k
            /\ \A t \in PersistedTimes(k) : t <= meta'[k]
            /\ meta'[k] \in PersistedTimes(k)]_vars

\* a fetch that began on files left between the two writes has fetched posts
\* the file already held and has written the merged file
CheckpointNeverAheadOfPostsWitness ==
  /\ src = "reddit"
  /\ pc = "save_meta"
  /\ LeftBetweenWrites
  /\ Ids(all_posts) \cap Ids(old.file.items) # {}
  /\ Len(raw[idx].items) > Len(old.file.items)

\* C30: after update_excel_and_upload has updated the workbook, for every
\* configured series (whose observations file, sheet and column exist) and
\* every observation of its file that is not missing, the sheet of the series
\* holds a row with the observation's date in column 1 and the observation's
\* value in the column of the series -- also when two series share a sheet.
WorkbookUpdated ==
  /\ fn = "FREDFetcher.update_excel_and_upload"
  /\ returned
  /\ excel_file.exists

SheetCarries(ws, col, o) ==
  \E r \in 1 .. Len(ws.rows) :
    /\ ws.rows[r][1] # Empty
    /\ DateOf(ws.rows[r][1]) = ToDatetime(o.date)
    /\ ws.rows[r][col] = o.value

SeriesCarried(k) ==
  LET id == FRED_SERIES_IDS[k]
      sheet_name == FRED_SERIES_SHEET[k]
  IN  (/\ raw_dir[id].exists
       /\ sheet_name \in DOMAIN excel_file.sheets
       /\ \E c \in 1 .. Len(excel_file.sheets[sheet_name].header) :
            excel_file.sheets[sheet_name].header[c] = id)
      => \A i \in 1 .. Len(raw_dir[id].df) :
           raw_dir[id].df[i].value # Missing =>
             SheetCarries(excel_file.sheets[sheet_name],
                          CHOOSE c \in 1 .. Len(excel_file.sheets[sheet_name].header) :
                            excel_file.sheets[sheet_name].header[c] = id,
                          raw_dir[id].df[i])

SheetCarriesEveryObservation ==
  WorkbookUpdated => \A k \in 1 .. NumSeries : SeriesCarried(k)

============================================================================
